---- MODULE Spec2Model ----
(***************************************************************************)
(* Model of the itinerary scheduling engine of voyager-ai                  *)
(* (src/app/agents/itinerary_agent.py, src/app/services/ors_api.py).       *)
(*                                                                         *)
(* Conventions of the model                                                *)
(*  - Clock values and durations are integers counted in ticks of 1/300 h  *)
(*    (12 s): an hour is H ticks, a minute 5 ticks, 0.01 h 3 ticks.  Every  *)
(*    quantity of the code (quarter-hour buffer, durations rounded to      *)
(*    0.01 h by the distance service, whole minutes) is a whole number of  *)
(*    ticks, so the float arithmetic of the code is exact in the model.    *)
(*  - An optional value (Python None or a missing key) is a sequence of    *)
(*    length 0, a present value x is <<x>>.                                *)
(*  - A coordinate is a position in km on a line; the haversine distance   *)
(*    of two coordinates is the absolute difference of their positions.    *)
(*  - A free-text duration is the sequence of its whitespace-separated     *)
(*    words, each word the sequence of its '-'-separated parts.            *)
(***************************************************************************)
EXTENDS Integers, Sequences, FiniteSets, TLC

\* ------------------------------------------------------------------ units
H == 60 * 5
MINUTE == H \div 60
DAY == 24 * H

None == << >>
Some(x) == << x >>
IsSome(o) == Len(o) > 0
Get(o) == o[1]

\* ------------------------------------------------------- program constants
BUFFER_TIME_HOURS == H \div 4
MAX_DAY_TRIP_DISTANCE == 100
MAX_REASONABLE_DISTANCE == 50
DAY_START == 9 * H
MAX_TRAVEL_HOURS == 2 * H
MEAL_DURATION == 1 * H
LUNCH_FROM == (23 * H) \div 2
LUNCH_TO == 14 * H
DINNER_FROM == (35 * H) \div 2
DINNER_TO == 20 * H
DINNER_AFTER == 17 * H

\* ------------------------------------------------------------------ bounds
MaxDays == 2
MaxPOI == 3
MaxRest == 2
MaxProbe == 60
MaxWords == 2
MaxDest == 3
MaxFound == 1
MaxTripDays == 1

\* -------------------------------------------------------- duration parsing
\* float(s) of the code for the part strings of the model's vocabulary: the
\* value in ticks, or None where float() raises ValueError.
FloatOf(s) ==
    CASE s = "1" -> Some(1 * H)
      [] s = "2" -> Some(2 * H)
      [] s = "3" -> Some(3 * H)
      [] s = "6" -> Some(6 * H)
      [] s = "1.5" -> Some((3 * H) \div 2)
      [] OTHER -> None

\* 'half' in s.lower() / 'full' in s.lower(), per part string.
HasHalf(s) == s \in {"half", "Half", "halfway"}
HasFull(s) == s \in {"full", "Full", "fully"}

\* The part strings of a text.
PartsOf(text) ==
    UNION { { text[i][j] : j \in 1..Len(text[i]) } : i \in 1..Len(text) }

\* _parse_duration on a text (a str): the except branch is the default of 2.
ParseText(text) ==
    IF \E part \in PartsOf(text) : HasHalf(part) THEN 4 * H
    ELSE IF \E part \in PartsOf(text) : HasFull(part) THEN 8 * H
    ELSE IF Len(text) = 0 THEN 2 * H              \* split()[0]: IndexError
    ELSE IF Len(text[1]) = 0 THEN 2 * H
    ELSE IF IsSome(FloatOf(text[1][1])) THEN Get(FloatOf(text[1][1]))
    ELSE 2 * H                                      \* float(): ValueError

\* A value handed to _parse_duration: a str (kind "text", its words in text),
\* a number or None.
TextValue(text) == [kind |-> "text", text |-> text]
NumberValue == [kind |-> "number", text |-> << >>]
NoneValue == [kind |-> "none", text |-> << >>]

\* _parse_duration, lines 241-250: .lower() of a value that is no str raises
\* AttributeError, which the bare except turns into the default of 2.
ParseValue(v) == IF v.kind = "text" THEN ParseText(v.text) ELSE 2 * H

DefaultDurationText == << <<"2">>, <<"hours">> >>
MealDurationText == << <<"1">>, <<"hour">> >>

\* _parse_duration(attraction.get('duration', default)): a missing key takes
\* the default text.
ParseDuration(duration, default) ==
    ParseText(IF IsSome(duration) THEN Get(duration) ELSE default)

\* ------------------------------------------------------------- formatting
\* _format_time_with_overflow: the text "Day+N HH:MM" is the record
\* [prefix |-> "Day+", n |-> N, hh |-> HH, mm |-> MM], the text "HH:MM" the
\* record [prefix |-> "", n |-> 0, hh |-> HH, mm |-> MM].
FormatTimeNoOverflowAt24(t) ==
    LET time_minutes == ((t % H) * 60) \div H
    IN  IF t > DAY
        THEN [prefix |-> "Day+", n |-> t \div DAY, hh |-> (t % DAY) \div H,
              mm |-> time_minutes]
        ELSE [prefix |-> "", n |-> 0, hh |-> t \div H, mm |-> time_minutes]

FormatTimeDayOffByOne(t) ==
    LET time_minutes == ((t % H) * 60) \div H
    IN  IF t >= DAY
        THEN [prefix |-> "Day+", n |-> t \div DAY + 1, hh |-> (t % DAY) \div H,
              mm |-> time_minutes]
        ELSE [prefix |-> "", n |-> 0, hh |-> t \div H, mm |-> time_minutes]

FormatTimeWrapped(t) ==
    [prefix |-> "", n |-> 0, hh |-> (t % DAY) \div H,
     mm |-> ((t % H) * 60) \div H]

FormatTime(t) ==
    LET time_minutes == ((t % H) * 60) \div H
    IN  IF t >= DAY
        THEN [prefix |-> "Day+", n |-> t \div DAY, hh |-> (t % DAY) \div H,
              mm |-> time_minutes]
        ELSE [prefix |-> "", n |-> 0, hh |-> t \div H, mm |-> time_minutes]

\* The clock value a formatted time stands for, in ticks: a 'Day+N HH:MM'
\* counts as N*24h + HH:MM.
TimeValue(s) == s.n * DAY + s.hh * H + s.mm * MINUTE

StartsWithDayPlus(s) == s.prefix = "Day+"

\* ------------------------------------------------------------ data records
\* An attraction (POI) dict.  at, decided_at and leg are history fields the
\* code does not hold: the clock value the stop was scheduled at, the clock
\* value at its meal decision, and the TravelSegment the distance lookup for
\* its leg to the next stop amounted to (None: no lookup was made).
Attraction(name, duration) ==
    [name |-> name, is_meal |-> FALSE, duration |-> duration,
     meal_type |-> "", meal_type_scheduled |-> "",
     coordinates |-> None, geocoding_error |-> FALSE,
     travel_to_next |-> None, distance_from_current |-> None,
     scheduled_time |-> None, at |-> None, decided_at |-> None, leg |-> None]

\* A restaurant (dining option) dict.
Restaurant(name, meal_type, coordinates) ==
    [name |-> name, is_meal |-> FALSE, duration |-> None,
     meal_type |-> meal_type, meal_type_scheduled |-> "",
     coordinates |-> coordinates, geocoding_error |-> FALSE,
     travel_to_next |-> None, distance_from_current |-> None,
     scheduled_time |-> None, at |-> None, decided_at |-> None, leg |-> None]

\* ------------------------------------------------------ external services
\* What matrix_distances(origin, [dest]) can give its caller: an exception
\* (HTTP error, missing key, network), or a one-entry list whose entry is
\* ERR (no path) or OK with a distance in km and a duration in ticks.
Routes ==
    { <<5, H \div 2>>, <<80, (5 * H) \div 2>>, <<150, (3 * H) \div 2>> }

MatrixRaise == [raised |-> TRUE, results |-> << >>]
MatrixErr ==
    [raised |-> FALSE,
     results |-> << [status |-> "ERR", distance_km |-> 0, duration_h |-> 0] >>]
MatrixOk(r) ==
    [raised |-> FALSE,
     results |-> << [status |-> "OK", distance_km |-> r[1], duration_h |-> r[2]] >>]
MatrixReturn == {MatrixRaise, MatrixErr} \cup { MatrixOk(r) : r \in Routes }

\* The TravelSegment an answer amounts to, kept as history: the distance and
\* duration of an OK entry, or "unavailable" (an exception or an ERR entry).
Segment(resp) ==
    IF ~resp.raised /\ Len(resp.results) > 0 /\ resp.results[1].status = "OK"
    THEN [status |-> "OK", distance_km |-> resp.results[1].distance_km,
          duration_h |-> resp.results[1].duration_h]
    ELSE [status |-> "unavailable", distance_km |-> 0, duration_h |-> 0]

\* round(100 * x / unit) of Python for an integer x: the nearest whole
\* number of hundredths of the unit, a tie going to the even one.
RoundHundredths(x, unit) ==
    LET q == (100 * x) \div unit
        r == (100 * x) % unit
    IN  IF 2 * r < unit THEN q
        ELSE IF 2 * r > unit THEN q + 1
        ELSE IF q % 2 = 0 THEN q ELSE q + 1

\* ors_api.matrix_distances, lines 127-138, entry i of the result for the
\* rows `distances` (metres) and `durations` (seconds) of the service's
\* answer, their entries optional: a missing or null entry gives ERR; an OK
\* entry holds the distance in hundredths of a km and the duration in ticks.
MatrixEntry(distances, durations, i) ==
    IF /\ i <= Len(distances) /\ IsSome(distances[i])
       /\ i <= Len(durations) /\ IsSome(durations[i])
    THEN [status |-> "OK",
          distance_km |-> RoundHundredths(Get(distances[i]), 1000),
          duration_h |-> RoundHundredths(Get(durations[i]), 3600) * (H \div 100)]
    ELSE [status |-> "ERR", distance_km |-> 0, duration_h |-> 0]

MatrixDistancesStopsAtFailure(n, answer) ==
    IF answer.http_error THEN MatrixRaise
    ELSE [raised |-> FALSE,
          results |->
             [i \in 1..n |->
                 IF \A k \in 1..i :
                        MatrixEntry(answer.distances, answer.durations, k).status = "OK"
                 THEN MatrixEntry(answer.distances, answer.durations, i)
                 ELSE [status |-> "ERR", distance_km |-> 0, duration_h |-> 0]]]

\* ors_api.matrix_distances, lines 97-139, for n destinations: an HTTP
\* status of 400 or more raises ORSError; otherwise one entry per
\* destination.
MatrixDistances(n, answer) ==
    IF answer.http_error THEN MatrixRaise
    ELSE [raised |-> FALSE,
          results |-> [i \in 1..n |->
                          MatrixEntry(answer.distances, answer.durations, i)]]

\* `results and results[0].get('status') == 'OK'` inside a try block whose
\* handler swallows the exception.
LookupOk(resp) ==
    /\ ~resp.raised
    /\ Len(resp.results) > 0
    /\ resp.results[1].status = "OK"

\* ------------------------------------------------------------------ state
VARIABLES
    pc,                     \* position in create_schedule
    days,                   \* argument days
    attractions,            \* argument attractions (list of dicts)
    restaurants,            \* argument restaurants (list of dicts)
    accommodation_location, \* argument accommodation_location (optional)
    daily_groups,           \* the day buckets (lists of attraction dicts)
    used_restaurants,       \* _integrate_dining: used_restaurants
    day_num,                \* _integrate_dining: day being processed
    idx,                    \* _integrate_dining: index of the next stop
    day_schedule,           \* _integrate_dining: day_schedule
    current_time,           \* _integrate_dining: current_time
    overflow_warning,       \* _integrate_dining: overflow_warning
    integrated_days,        \* the day lists handed to step 7
    plan,                   \* the returned dict (optional)
    raised,                 \* an exception left create_schedule
    probe,                  \* argument/result of a directly applied function
    center_coords,          \* _validate_geocoding: center_coords[0] (optional)
    center_location,        \* create_schedule: center_location (optional)
    given,                  \* the caller's list object passed as attractions
    searched,               \* _find_nearest_restaurant: its candidates and their
                            \* lookups, while its call is the last step taken
    state                   \* workflow: the TravelPlanState of plan_trip
                            \* (optional: none when plan_trip is not running)

vars ==
    << pc, days, attractions, restaurants, accommodation_location,
       daily_groups, used_restaurants, day_num, idx, day_schedule,
       current_time, overflow_warning, integrated_days, plan, raised, probe,
       center_coords, center_location, given, searched, state >>

\* ----------------------------------------------- _calculate_travel_times
\* The travel_to_next a leg lookup leaves on the attraction (lines 110-126).
LegSegment(resp) ==
    IF LookupOk(resp)
    THEN IF resp.results[1].distance_km > MAX_DAY_TRIP_DISTANCE
         THEN None
         ELSE Some([distance_km |-> resp.results[1].distance_km,
                    duration_h |-> resp.results[1].duration_h])
    ELSE None

\* Whether the loop makes a lookup for the leg from stop i (line 106).
LegLookedUp(day, i) ==
    /\ i < Len(day)
    /\ IsSome(day[i].coordinates)
    /\ IsSome(day[i + 1].coordinates)

\* The responses the distance service can give for the legs of a day: one
\* per leg looked up, None for the others.
LegResponses(day) ==
    { f \in [1..Len(day) -> {None} \cup { Some(r) : r \in MatrixReturn }] :
        \A i \in 1..Len(day) : IsSome(f[i]) <=> LegLookedUp(day, i) }

CalculateTravelTimes(day, resp) ==
    [i \in 1..Len(day) |->
        IF IsSome(resp[i])
        THEN [day[i] EXCEPT !.travel_to_next =
                                IF IsSome(LegSegment(Get(resp[i])))
                                THEN LegSegment(Get(resp[i]))
                                ELSE day[i].travel_to_next,
                            !.leg = Some(Segment(Get(resp[i])))]
        ELSE day[i]]

\* ------------------------------------------------------ exception handling
\* The external calls of create_schedule that sit inside a try block whose
\* handler swallows every exception: geocode of an attraction (38-51), of
\* the destination in validation (60-82) and in the day-trip filter
\* (428-432), of a restaurant (456-464); matrix_distances for a leg
\* (110-126), for a candidate restaurant (223-235) and from the restaurant
\* to the next stop (258-273).
GuardedSitesWithoutLeg ==
    { "geocode_attraction", "validate", "filter", "geocode_restaurant",
      "nearest", "from_restaurant" }

GuardedSites ==
    { "geocode_attraction", "validate", "filter", "geocode_restaurant",
      "leg", "nearest", "from_restaurant" }

\* An exception raised by the call at `site` leaves create_schedule.
Escapes(site, call_raised) == call_raised /\ site \notin GuardedSites

\* ------------------------------------------------------------ meal windows
HasMeal(sched, meal_type) ==
    \E k \in 1..Len(sched) :
        sched[k].is_meal /\ sched[k].meal_type_scheduled = meal_type

\* line 333
IsLunchTimeNoUpperBound(effective_time, sched) ==
    /\ LUNCH_FROM <= effective_time
    /\ ~HasMeal(sched, "lunch")

IsLunchTime(effective_time, sched) ==
    /\ LUNCH_FROM <= effective_time /\ effective_time <= LUNCH_TO
    /\ ~HasMeal(sched, "lunch")

\* line 334
IsDinnerTimeAnyNumber(effective_time, is_last, sched) ==
    /\ (DINNER_FROM <= effective_time /\ effective_time <= DINNER_TO) \/ is_last
    /\ effective_time > DINNER_AFTER

IsDinnerTime(effective_time, is_last, sched) ==
    /\ (DINNER_FROM <= effective_time /\ effective_time <= DINNER_TO) \/ is_last
    /\ effective_time > DINNER_AFTER
    /\ ~HasMeal(sched, "dinner")

\* ------------------------------------------------ _find_nearest_restaurant
\* lines 348-351
AvailableRestaurantsAll(rs, used) == rs

AvailableRestaurants(rs, used) ==
    SelectSeq(rs, LAMBDA r : r.name \notin used)

MatchingRestaurantsAnyType(rs, meal_type) ==
    SelectSeq(rs, LAMBDA r : IsSome(r.coordinates))

\* lines 204-211
MatchingRestaurants(rs, meal_type) ==
    LET matching ==
            SelectSeq(rs, LAMBDA r : r.meal_type = meal_type /\ IsSome(r.coordinates))
    IN  IF Len(matching) = 0
        THEN SelectSeq(rs, LAMBDA r : IsSome(r.coordinates))
        ELSE matching

NearestFromFirstCandidate(matching, resp, i, min_distance, nearest) ==
    Some(matching[1])

\* lines 216-237: the loop over the candidates, resp[i] the distance
\* service's answer for candidate i; min_distance None is float('inf').
RECURSIVE NearestFrom(_, _, _, _, _)
NearestFrom(matching, resp, i, min_distance, nearest) ==
    IF i > Len(matching) THEN nearest
    ELSE IF LookupOk(resp[i])
            /\ (~IsSome(min_distance)
                \/ resp[i].results[1].distance_km < Get(min_distance))
    THEN NearestFrom(matching, resp, i + 1,
            Some(resp[i].results[1].distance_km),
            Some([matching[i] EXCEPT !.distance_from_current =
                Some([distance_km |-> resp[i].results[1].distance_km,
                      duration_minutes |->
                          (resp[i].results[1].duration_h * 60) \div H])]))
    ELSE NearestFrom(matching, resp, i + 1, min_distance, nearest)

FindNearestRestaurant(rs, meal_type, resp) ==
    LET matching == MatchingRestaurants(rs, meal_type)
    IN  IF Len(matching) = 0 THEN None
        ELSE NearestFrom(matching, resp, 1, None, None)

\* --------------------------------------- _calculate_travel_from_restaurant
FromRestaurantSegmentAnyDistance(resp) ==
    IF LookupOk(resp)
    THEN Some([distance_km |-> resp.results[1].distance_km,
               duration_h |-> resp.results[1].duration_h])
    ELSE None

FromRestaurantSegment(resp) ==
    IF LookupOk(resp)
    THEN IF resp.results[1].distance_km > MAX_DAY_TRIP_DISTANCE
         THEN None
         ELSE Some([distance_km |-> resp.results[1].distance_km,
                    duration_h |-> resp.results[1].duration_h])
    ELSE None

\* -------------------------------------------------- clock advances (ticks)
\* line 320: the stop's duration and the buffer.
AfterStop(t, duration_hours) == t + duration_hours + BUFFER_TIME_HOURS

\* lines 323-329: the travel to the next attraction.
LegTravelUncapped(travel_to_next) ==
    IF IsSome(travel_to_next) THEN Get(travel_to_next).duration_h ELSE 0

LegTravel(travel_to_next) ==
    IF IsSome(travel_to_next)
    THEN IF Get(travel_to_next).duration_h > MAX_TRAVEL_HOURS
         THEN 0
         ELSE Get(travel_to_next).duration_h
    ELSE 0

\* lines 360-363: the travel to the selected restaurant.
RestaurantTravel(restaurant) ==
    IF IsSome(restaurant.distance_from_current)
    THEN Get(restaurant.distance_from_current).duration_minutes * MINUTE
    ELSE 0

\* lines 385-388: the travel from the restaurant to the next attraction.
AfterMealTravel(travel_to_next) ==
    IF IsSome(travel_to_next)
       /\ Get(travel_to_next).duration_h <= MAX_TRAVEL_HOURS
    THEN Get(travel_to_next).duration_h
    ELSE 0

\* -------------------------------------------------------- _integrate_dining
\* An exception leaves create_schedule: nothing is returned.
Abort ==
    /\ pc' = "raised"
    /\ raised' = TRUE
    /\ UNCHANGED << days, attractions, restaurants, accommodation_location,
                    daily_groups, used_restaurants, day_num, idx, day_schedule,
                    current_time, overflow_warning, integrated_days, plan,
                    probe, center_coords, center_location, given, searched, state >>

\* The end of one day of the loop of line 300 (line 390), the locals of the
\* day going out of scope.
EndDay(sched) ==
    /\ integrated_days' = Append(integrated_days, sched)
    /\ day_num' = day_num + 1
    /\ pc' = IF day_num = Len(daily_groups) THEN "generate" ELSE "day"
    /\ day_schedule' = << >>
    /\ idx' = 1
    /\ current_time' = DAY_START
    /\ overflow_warning' = FALSE

\* Lines 300-306: a day starts; its travel times are computed first.
BeginDay ==
    /\ pc = "day"
    /\ \E resp \in LegResponses(daily_groups[day_num]) :
        IF \E i \in 1..Len(resp) :
               IsSome(resp[i]) /\ Escapes("leg", Get(resp[i]).raised)
        THEN Abort
        ELSE /\ daily_groups' =
                    [daily_groups EXCEPT ![day_num] =
                        CalculateTravelTimes(daily_groups[day_num], resp)]
             /\ IF Len(daily_groups[day_num]) = 0
                THEN EndDay(<< >>)
                ELSE /\ pc' = "stop"
                     /\ day_schedule' = << >>
                     /\ current_time' = DAY_START
                     /\ overflow_warning' = FALSE
                     /\ idx' = 1
                     /\ UNCHANGED << integrated_days, day_num >>
             /\ searched' = << >>
             /\ UNCHANGED << days, attractions, restaurants,
                             accommodation_location, used_restaurants, plan,
                             raised, probe,
                             center_coords, center_location, given, state >>

EndStopHaltsAtOverflow(attraction, sched, t, used, overflow) ==
    /\ daily_groups' = [daily_groups EXCEPT ![day_num][idx] = attraction]
    /\ used_restaurants' = used
    /\ IF idx < Len(daily_groups[day_num]) /\ t < DAY
       THEN /\ idx' = idx + 1
            /\ day_schedule' = sched
            /\ current_time' = t
            /\ overflow_warning' = overflow
            /\ pc' = "stop"
            /\ UNCHANGED << integrated_days, day_num >>
       ELSE EndDay(sched)
    /\ UNCHANGED << days, attractions, restaurants, accommodation_location,
                    plan, raised, probe,
                    center_coords, center_location, given, state >>

\* The end of one iteration of the loop of line 308.
EndStop(attraction, sched, t, used, overflow) ==
    /\ daily_groups' = [daily_groups EXCEPT ![day_num][idx] = attraction]
    /\ used_restaurants' = used
    /\ IF idx < Len(daily_groups[day_num])
       THEN /\ idx' = idx + 1
            /\ day_schedule' = sched
            /\ current_time' = t
            /\ overflow_warning' = overflow
            /\ pc' = "stop"
            /\ UNCHANGED << integrated_days, day_num >>
       ELSE EndDay(sched)
    /\ UNCHANGED << days, attractions, restaurants, accommodation_location,
                    plan, raised, probe,
                    center_coords, center_location, given, state >>

\* Lines 359-388: the selected restaurant is scheduled as a meal.
InsertMeal(attraction, sched, t, overflow, meal_type, restaurant) ==
    LET day == daily_groups[day_num]
        at_meal == t + RestaurantTravel(restaurant)
        looked_up ==
            /\ idx < Len(day)
            /\ IsSome(day[idx + 1].coordinates)
            /\ IsSome(restaurant.coordinates)
    IN  \E resp \in IF looked_up THEN { Some(r) : r \in MatrixReturn } ELSE {None} :
            IF IsSome(resp) /\ Escapes("from_restaurant", Get(resp).raised)
            THEN Abort
            ELSE LET travel_to_next ==
                         IF IsSome(resp) THEN FromRestaurantSegment(Get(resp))
                         ELSE None
                     meal == [restaurant EXCEPT
                                 !.is_meal = TRUE,
                                 !.meal_type_scheduled = meal_type,
                                 !.scheduled_time = Some(FormatTime(at_meal)),
                                 !.at = Some(at_meal),
                                 !.travel_to_next = travel_to_next,
                                 !.leg = IF IsSome(resp)
                                         THEN Some(Segment(Get(resp)))
                                         ELSE None]
                 IN  EndStop(attraction, Append(sched, meal),
                             at_meal + MEAL_DURATION + BUFFER_TIME_HOURS
                                 + AfterMealTravel(travel_to_next),
                             used_restaurants \cup {restaurant.name}, overflow)

\* The call of _find_nearest_restaurant for a meal of type meal_type, kept
\* as history: its candidates (matching_restaurants) and, per candidate,
\* the TravelSegment its distance lookup amounted to.
Searched(meal_type, matching, resp) ==
    [meal_type |-> meal_type,
     candidates |-> matching,
     answers |-> [i \in 1..Len(matching) |-> Segment(resp[i])]]

\* Lines 308-388: one stop of the day is scheduled, the clock advanced and
\* the meal decision taken.
ScheduleStop ==
    /\ pc = "stop"
    /\ LET day == daily_groups[day_num]
           overflow == overflow_warning \/ current_time >= DAY
           t == AfterStop(current_time,
                          ParseDuration(day[idx].duration, DefaultDurationText))
                    + LegTravel(day[idx].travel_to_next)
           attraction == [day[idx] EXCEPT
                             !.scheduled_time = Some(FormatTime(current_time)),
                             !.at = Some(current_time),
                             !.decided_at = Some(t)]
           sched == Append(day_schedule, attraction)
           effective_time == t % DAY
           is_lunch_time == IsLunchTime(effective_time, sched)
           is_dinner_time == IsDinnerTime(effective_time, idx = Len(day), sched)
           meal_type == IF is_lunch_time THEN "lunch" ELSE "dinner"
           current_loc == IF IsSome(attraction.coordinates)
                          THEN attraction.coordinates
                          ELSE accommodation_location
           available == AvailableRestaurants(restaurants, used_restaurants)
           matching == MatchingRestaurants(available, meal_type)
       IN  IF (is_lunch_time \/ is_dinner_time) /\ IsSome(current_loc)
           THEN \E resp \in [1..Len(matching) -> MatrixReturn] :
                    IF \E i \in 1..Len(matching) : Escapes("nearest", resp[i].raised)
                    THEN Abort
                    ELSE LET restaurant ==
                                 FindNearestRestaurant(available, meal_type, resp)
                         IN  /\ searched' = << Searched(meal_type, matching, resp) >>
                             /\ IF IsSome(restaurant)
                                THEN InsertMeal(attraction, sched, t, overflow,
                                                meal_type, Get(restaurant))
                                ELSE EndStop(attraction, sched, t,
                                             used_restaurants, overflow)
           ELSE /\ searched' = << >>
                /\ EndStop(attraction, sched, t, used_restaurants, overflow)

\* ---------------------------------------------------------------- places
\* Positions (km on the line) the geocoder can answer with.
CenterPositions == {0}
AttractionPositions == {2, 120}
RestaurantPositions == {4}
AccommodationPosition == 1 + 0

\* ------------------------------------------------------------- geocoding
\* What geocode(text, limit=1) can give its caller: an exception, an empty
\* list, or a one-entry list holding a coordinate.
GeocodeReturn(positions) ==
    { [raised |-> TRUE, coords |-> << >>], [raised |-> FALSE, coords |-> << >>] }
        \cup { [raised |-> FALSE, coords |-> << p >>] : p \in positions }

\* _haversine_distance on the line of positions.
HaversineDistance(a, b) == IF a >= b THEN a - b ELSE b - a

\* _geocode_attractions, lines 36-51: resp[i] is the answer for attraction i.
GeocodeAttraction(attraction, resp) ==
    [attraction EXCEPT !.coordinates =
        IF ~resp.raised /\ Len(resp.coords) > 0 THEN Some(resp.coords[1])
        ELSE None]

ValidateAttractionKeepsCoordinate(attraction, center) ==
    IF IsSome(attraction.coordinates)
       /\ HaversineDistance(center, Get(attraction.coordinates))
              > MAX_REASONABLE_DISTANCE
    THEN [attraction EXCEPT !.geocoding_error = TRUE]
    ELSE attraction

\* _validate_geocoding, lines 68-80, for a geocoded center.
ValidateAttraction(attraction, center) ==
    IF IsSome(attraction.coordinates)
       /\ HaversineDistance(center, Get(attraction.coordinates))
              > MAX_REASONABLE_DISTANCE
    THEN [attraction EXCEPT !.coordinates = None, !.geocoding_error = TRUE]
    ELSE attraction

KeptForDayTripKeepsFlagged(attr, center) ==
    IF ~IsSome(attr.coordinates)
    THEN TRUE
    ELSE HaversineDistance(center, Get(attr.coordinates))
             <= MAX_DAY_TRIP_DISTANCE

\* _filter_day_trip_attractions, lines 138-153: the attraction is kept.
KeptForDayTrip(attr, center) ==
    IF ~IsSome(attr.coordinates)
    THEN ~attr.geocoding_error
    ELSE HaversineDistance(center, Get(attr.coordinates))
             <= MAX_DAY_TRIP_DISTANCE

FilterDayTripAttractions(attrs, center, n_days) ==
    IF n_days > 1 THEN attrs
    ELSE SelectSeq(attrs, LAMBDA a : KeptForDayTrip(a, center))

\* ------------------------------------------------------------ day buckets
\* lines 439-445
Max(a, b) == IF a >= b THEN a ELSE b
Min(a, b) == IF a <= b THEN a ELSE b

\* attractions[start_idx:end_idx] of Python (0-based, end exclusive).
Slice(seq, start_idx, end_idx) ==
    LET lo == Min(start_idx, Len(seq))
        hi == Min(end_idx, Len(seq))
    IN  IF hi <= lo THEN << >> ELSE SubSeq(seq, lo + 1, hi)

\* a // b of Python for a >= 0 and b # 0: the floor of the quotient.
FloorDiv(a, b) ==
    IF b > 0 THEN a \div b ELSE 0 - ((a + (0 - b) - 1) \div (0 - b))

SplitDaysRoundedUp(attrs, n_days) ==
    LET per_day == Max(1, FloorDiv(Len(attrs) + n_days - 1, n_days))
    IN  [day \in 1..n_days |->
            Slice(attrs, (day - 1) * per_day,
                  IF day < n_days THEN (day - 1) * per_day + per_day
                  ELSE Len(attrs))]

SplitDaysEvenOnly(attrs, n_days) ==
    LET per_day == Max(1, FloorDiv(Len(attrs), n_days))
    IN  [day \in 1..n_days |->
            Slice(attrs, (day - 1) * per_day, (day - 1) * per_day + per_day)]

SplitDays(attrs, n_days) ==
    LET per_day == Max(1, FloorDiv(Len(attrs), n_days))
    IN  [day \in 1..n_days |->
            Slice(attrs, (day - 1) * per_day,
                  IF day < n_days THEN (day - 1) * per_day + per_day
                  ELSE Len(attrs))]

\* ------------------------------------------------- _optimize_daily_routes
RECURSIVE NearestIndexLastOnTie(_, _, _, _)
NearestIndexLastOnTie(remaining, current_loc, i, best) ==
    IF i > Len(remaining) THEN best
    ELSE IF HaversineDistance(current_loc, Get(remaining[i].coordinates))
              <= HaversineDistance(current_loc, Get(remaining[best].coordinates))
    THEN NearestIndexLastOnTie(remaining, current_loc, i + 1, i)
    ELSE NearestIndexLastOnTie(remaining, current_loc, i + 1, best)

\* min(remaining, key=distance to current_loc): the first of the nearest.
RECURSIVE NearestIndex(_, _, _, _)
NearestIndex(remaining, current_loc, i, best) ==
    IF i > Len(remaining) THEN best
    ELSE IF HaversineDistance(current_loc, Get(remaining[i].coordinates))
              < HaversineDistance(current_loc, Get(remaining[best].coordinates))
    THEN NearestIndex(remaining, current_loc, i + 1, i)
    ELSE NearestIndex(remaining, current_loc, i + 1, best)

RemoveAt(seq, k) ==
    [i \in 1..(Len(seq) - 1) |-> IF i < k THEN seq[i] ELSE seq[i + 1]]

\* lines 180-186
RECURSIVE NearestNeighbour(_, _, _)
NearestNeighbour(remaining, current_loc, ordered) ==
    IF Len(remaining) = 0 THEN ordered
    ELSE LET k == NearestIndex(remaining, current_loc, 1, 1)
         IN  NearestNeighbour(RemoveAt(remaining, k),
                              Get(remaining[k].coordinates),
                              Append(ordered, remaining[k]))

OptimizeDayFromTwoGeocoded(day_attractions, start_location) ==
    LET geocoded == SelectSeq(day_attractions, LAMBDA a : IsSome(a.coordinates))
        non_geocoded == SelectSeq(day_attractions, LAMBDA a : ~IsSome(a.coordinates))
    IN  IF Len(day_attractions) <= 2 THEN day_attractions
        ELSE IF Len(geocoded) <= 1 THEN day_attractions
        ELSE NearestNeighbour(geocoded,
                 IF IsSome(start_location) THEN Get(start_location)
                 ELSE Get(geocoded[1].coordinates),
                 << >>) \o non_geocoded

\* lines 162-190, for one day
OptimizeDay(day_attractions, start_location) ==
    LET geocoded == SelectSeq(day_attractions, LAMBDA a : IsSome(a.coordinates))
        non_geocoded == SelectSeq(day_attractions, LAMBDA a : ~IsSome(a.coordinates))
    IN  IF Len(day_attractions) <= 2 THEN day_attractions
        ELSE IF Len(geocoded) <= 2 THEN day_attractions
        ELSE NearestNeighbour(geocoded,
                 IF IsSome(start_location) THEN Get(start_location)
                 ELSE Get(geocoded[1].coordinates),
                 << >>) \o non_geocoded

OptimizeDailyRoutes(groups, start_location) ==
    [d \in 1..Len(groups) |-> OptimizeDay(groups[d], start_location)]

\* ------------------------------------------- _generate_complete_schedule
NineOClock == [prefix |-> "", n |-> 0, hh |-> 9, mm |-> 0]
Noon == [prefix |-> "", n |-> 0, hh |-> 12, mm |-> 0]
BeyondDayBoundary == [prefix |-> "Beyond day boundary", n |-> 0, hh |-> 0, mm |-> 0]

\* lines 518-565: the activity record of one item of a day list.
Activity(item) ==
    IF item.is_meal
    THEN [time |-> IF IsSome(item.scheduled_time)
                   THEN Get(item.scheduled_time) ELSE Noon,
          type |-> "meal",
          meal_type |-> item.meal_type_scheduled,
          name |-> item.name,
          duration |-> MealDurationText,
          travel_to_restaurant |-> item.distance_from_current,
          travel_after |-> item.travel_to_next]
    ELSE [time |-> IF IsSome(item.scheduled_time)
                   THEN Get(item.scheduled_time) ELSE NineOClock,
          type |-> "attraction",
          meal_type |-> "",
          name |-> item.name,
          duration |-> IF IsSome(item.duration) THEN Get(item.duration)
                       ELSE DefaultDurationText,
          travel_to_restaurant |-> None,
          travel_after |-> item.travel_to_next]

RECURSIVE SumSeq(_)
SumSeq(seq) == IF Len(seq) = 0 THEN 0 ELSE seq[1] + SumSeq(Tail(seq))

\* round(x, 1) on a value in ticks: the nearest multiple of 0.1 h, a tie
\* going to the even multiple.
RoundTenth(t) ==
    LET tenth == H \div 10
        q == t \div tenth
        r == t % tenth
    IN  IF 2 * r < tenth THEN q * tenth
        ELSE IF 2 * r > tenth THEN (q + 1) * tenth
        ELSE IF q % 2 = 0 THEN q * tenth ELSE (q + 1) * tenth

\* lines 586-590
ActivityTravel(a) ==
    (IF IsSome(a.travel_after) THEN Get(a.travel_after).duration_h ELSE 0)
    + (IF IsSome(a.travel_to_restaurant)
       THEN Get(a.travel_to_restaurant).duration_minutes * MINUTE ELSE 0)

\* lines 568-576
EndTime(activities) ==
    LET last == activities[Len(activities)]
    IN  IF StartsWithDayPlus(last.time) THEN BeyondDayBoundary
        ELSE FormatTime(last.time.hh * H + ParseText(last.duration))

\* lines 509-606: the record of one day.
DaySummary(day_number, day_items) ==
    LET activities == [k \in 1..Len(day_items) |-> Activity(day_items[k])]
        day_warnings ==
            SelectSeq(day_items,
                LAMBDA it : IsSome(it.scheduled_time)
                            /\ StartsWithDayPlus(Get(it.scheduled_time)))
    IN  IF Len(activities) > 0
        THEN [day |-> day_number,
              theme |-> "Experience",
              start_time |-> Some(activities[1].time),
              end_time |-> Some(EndTime(activities)),
              activities |-> activities,
              total_activities |->
                  Len(SelectSeq(activities, LAMBDA a : a.type # "meal")),
              total_meals |->
                  Len(SelectSeq(activities, LAMBDA a : a.type = "meal")),
              total_travel_time_hours |->
                  Some(RoundTenth(SumSeq(
                      [k \in 1..Len(activities) |-> ActivityTravel(activities[k])]))),
              warnings |-> [k \in 1..Len(day_warnings) |-> day_warnings[k].name]]
        ELSE [day |-> day_number,
              theme |-> "Free Day",
              start_time |-> None,
              end_time |-> None,
              activities |-> << >>,
              total_activities |-> 0,
              total_meals |-> 0,
              total_travel_time_hours |-> Some(0),
              warnings |-> << >>]

GenerateCompleteScheduleDropsFreeDays(groups, n_days) ==
    LET kept == SelectSeq(groups, LAMBDA g : Len(g) > 0)
        itinerary == [d \in 1..Len(kept) |-> DaySummary(d, kept[d])]
    IN  [itinerary |-> itinerary,
         summary |->
            [total_days |-> n_days,
             total_attractions |->
                 SumSeq([d \in 1..Len(itinerary) |-> itinerary[d].total_activities]),
             total_meals_planned |->
                 SumSeq([d \in 1..Len(itinerary) |-> itinerary[d].total_meals]),
             optimization_applied |-> TRUE,
             total_travel_hours |-> Some(0)],
         warnings |-> {}]

\* lines 506-636
GenerateCompleteSchedule(groups, n_days) ==
    LET itinerary == [d \in 1..Len(groups) |-> DaySummary(d, groups[d])]
    IN  [itinerary |-> itinerary,
         summary |->
            [total_days |-> n_days,
             total_attractions |->
                 SumSeq([d \in 1..Len(itinerary) |-> itinerary[d].total_activities]),
             total_meals_planned |->
                 SumSeq([d \in 1..Len(itinerary) |-> itinerary[d].total_meals]),
             optimization_applied |-> TRUE,
             total_travel_hours |->
                 Some(RoundTenth(SumSeq(
                     [d \in 1..Len(itinerary) |->
                         Get(itinerary[d].total_travel_time_hours)])))],
         warnings |->
            UNION { { itinerary[d].warnings[k] : k \in 1..Len(itinerary[d].warnings) }
                    : d \in 1..Len(itinerary) }]

\* _generate_empty_schedule, lines 477-496
GenerateEmptySchedule(n_days) ==
    [itinerary |->
        [d \in 1..n_days |->
            [day |-> d,
             theme |-> "No valid attractions found",
             start_time |-> None,
             end_time |-> None,
             activities |-> << >>,
             total_activities |-> 0,
             total_meals |-> 0,
             total_travel_time_hours |-> None,
             warnings |-> << >>]],
     summary |->
        [total_days |-> n_days,
         total_attractions |-> 0,
         total_meals_planned |-> 0,
         optimization_applied |-> FALSE,
         total_travel_hours |-> None],
     warnings |-> {}]

\* ---------------------------------------------------------- create_schedule
\* Step 1, line 420.
GeocodeAttractionsStep ==
    /\ pc = "geocode"
    /\ \E resp \in [1..Len(attractions) -> GeocodeReturn(AttractionPositions)] :
        IF \E i \in 1..Len(attractions) :
               Escapes("geocode_attraction", resp[i].raised)
        THEN Abort
        ELSE /\ attractions' =
                    [i \in 1..Len(attractions) |->
                        GeocodeAttraction(attractions[i], resp[i])]
             /\ given' = attractions'
             /\ pc' = "validate"
             /\ UNCHANGED << days, restaurants, accommodation_location,
                             daily_groups, used_restaurants, day_num, idx,
                             day_schedule, current_time, overflow_warning,
                             integrated_days, plan, raised, probe,
                             center_coords, center_location, searched, state >>

\* Step 2, line 423 (_validate_geocoding, lines 55-84).
ValidateGeocodingStep ==
    /\ pc = "validate"
    /\ \E resp \in GeocodeReturn(CenterPositions) :
        IF Escapes("validate", resp.raised)
        THEN Abort
        ELSE /\ attractions' =
                    IF resp.raised \/ Len(resp.coords) = 0
                    THEN attractions
                    ELSE [i \in 1..Len(attractions) |->
                             ValidateAttraction(attractions[i], resp.coords[1])]
             /\ given' = attractions'
             /\ center_coords' =
                    IF resp.raised \/ Len(resp.coords) = 0
                    THEN None ELSE Some(resp.coords[1])
             /\ pc' = "filter"
             /\ UNCHANGED << days, restaurants, accommodation_location,
                             daily_groups, used_restaurants, day_num, idx,
                             day_schedule, current_time, overflow_warning,
                             integrated_days, plan, raised, probe,
                             center_location, searched, state >>

\* Step 3, lines 426-432: geocode is called only without an accommodation;
\* an exception or an empty answer (IndexError) leaves the list unfiltered.
FilterStep ==
    /\ pc = "filter"
    /\ \E resp \in IF days = 1 /\ ~IsSome(accommodation_location)
                   THEN GeocodeReturn(CenterPositions)
                   ELSE { [raised |-> FALSE, coords |-> accommodation_location] } :
        IF days = 1 /\ Escapes("filter", resp.raised \/ Len(resp.coords) = 0)
        THEN Abort
        ELSE /\ attractions' =
                    IF days = 1 /\ ~resp.raised /\ Len(resp.coords) > 0
                    THEN FilterDayTripAttractions(attractions, resp.coords[1], days)
                    ELSE attractions
             /\ center_location' =
                    IF days = 1 /\ ~resp.raised /\ Len(resp.coords) > 0
                    THEN Some(resp.coords[1]) ELSE None
             /\ center_coords' = None       \* _validate_geocoding is over
             /\ pc' = "split"
             /\ UNCHANGED << days, restaurants, accommodation_location,
                             daily_groups, used_restaurants, day_num, idx,
                             day_schedule, current_time, overflow_warning,
                             integrated_days, plan, raised, probe, given, searched, state >>

\* Lines 434-445: the empty schedule, or step 4.
SplitStep ==
    /\ pc = "split"
    /\ IF Len(attractions) = 0
       THEN /\ plan' = Some(GenerateEmptySchedule(days))
            /\ pc' = "done"
            /\ center_location' = None     \* not read after line 430
            /\ UNCHANGED << daily_groups, raised >>
       ELSE IF Escapes("split", days = 0)  \* line 439: ZeroDivisionError
       THEN /\ pc' = "raised"
            /\ raised' = TRUE
            /\ UNCHANGED << daily_groups, plan, center_location >>
       ELSE /\ daily_groups' = SplitDays(attractions, days)
            /\ pc' = "optimize"
            /\ center_location' = None
            /\ UNCHANGED << plan, raised >>
    /\ UNCHANGED << days, attractions, restaurants, accommodation_location,
                    used_restaurants, day_num, idx, day_schedule, current_time,
                    overflow_warning, integrated_days, probe, center_coords,
                    given, searched, state >>

\* Step 5, line 448.
OptimizeStep ==
    /\ pc = "optimize"
    /\ daily_groups' = OptimizeDailyRoutes(daily_groups, accommodation_location)
    /\ pc' = "dining"
    /\ UNCHANGED << days, attractions, restaurants, accommodation_location,
                    used_restaurants, day_num, idx, day_schedule, current_time,
                    overflow_warning, integrated_days, plan, raised, probe,
                    center_coords, center_location, given, searched, state >>

\* lines 453-464, for one restaurant
GeocodeRestaurant(restaurant, resp) ==
    IF ~IsSome(restaurant.coordinates) /\ ~resp.raised /\ Len(resp.coords) > 0
    THEN [restaurant EXCEPT !.coordinates = Some(resp.coords[1])]
    ELSE restaurant

\* The answers geocode gives for the restaurants: asked only for those
\* without coordinates.
RestaurantResponses(rs) ==
    { f \in [1..Len(rs) -> GeocodeReturn(RestaurantPositions)] :
        \A i \in 1..Len(rs) :
            IsSome(rs[i].coordinates) => f[i] = [raised |-> FALSE, coords |-> << >>] }

\* Step 6, lines 451-470: with restaurants and an accommodation the
\* restaurants are geocoded and the days simulated (none when there is no
\* bucket: the loop of line 299 has nothing to run over); otherwise the
\* buckets go to step 7 as they are.
DiningStep ==
    /\ pc = "dining"
    /\ IF Len(restaurants) > 0 /\ IsSome(accommodation_location)
       THEN \E resp \in RestaurantResponses(restaurants) :
              IF \E i \in 1..Len(restaurants) :
                     Escapes("geocode_restaurant", resp[i].raised)
              THEN Abort
              ELSE /\ restaurants' =
                          [i \in 1..Len(restaurants) |->
                              GeocodeRestaurant(restaurants[i], resp[i])]
                   /\ pc' = IF Len(daily_groups) = 0 THEN "generate" ELSE "day"
                   /\ UNCHANGED << integrated_days, days, attractions,
                                   accommodation_location, daily_groups,
                                   used_restaurants, day_num, idx, day_schedule,
                                   current_time, overflow_warning, plan, raised,
                                   probe,
                                   center_coords, center_location, given, searched, state >>
       ELSE /\ integrated_days' = daily_groups
            /\ pc' = "generate"
            /\ UNCHANGED << restaurants, days, attractions,
                            accommodation_location, daily_groups,
                            used_restaurants, day_num, idx, day_schedule,
                            current_time, overflow_warning, plan, raised,
                            probe, center_coords, center_location, given, searched, state >>

\* Step 7, lines 473-475.
GenerateStep ==
    /\ pc = "generate"
    /\ plan' = Some(GenerateCompleteSchedule(integrated_days, days))
    /\ pc' = "done"
    /\ UNCHANGED << days, attractions, restaurants, accommodation_location,
                    daily_groups, used_restaurants, day_num, idx, day_schedule,
                    current_time, overflow_warning, integrated_days, raised,
                    probe, center_coords, center_location, given, state >>
    /\ searched' = << >>

\* ------------------------------------------------------------------ inputs
POINames == << "A1", "A2", "A3", "A4", "A5", "A6" >>
HalfDay == << <<"half">>, <<"day">> >>
FullDay == << <<"full">>, <<"day">> >>
TwoToThreeHours == << <<"2", "3">>, <<"hours">> >>
OneHour == << <<"1">>, <<"hour">> >>
SixHours == << <<"6">>, <<"hours">> >>
Garbage == << <<"garbage">> >>

\* The durations of the attractions the lists are taken from; the third has
\* no duration key.
DurationCatalogue ==
    << Some(FullDay), Some(TwoToThreeHours), None, Some(HalfDay), Some(OneHour),
       Some(Garbage) >>

\* The attraction lists of at most n entries: a prefix of the catalogue.
AttractionLists(n) ==
    { [i \in 1..k |-> Attraction(POINames[i], DurationCatalogue[i])] : k \in 0..n }

\* The dining options the lists are taken from: two of them bear the same
\* name.
RestaurantCatalogue ==
    << Restaurant("R1", "lunch", None), Restaurant("R2", "dinner", None),
       Restaurant("R1", "dinner", None), Restaurant("R3", "breakfast", None),
       Restaurant("R4", "lunch", None) >>

\* The restaurant lists of at most n entries: a prefix of the catalogue,
\* the coordinate of each entry drawn from cs.
RestaurantLists(n, cs) ==
    UNION { { [i \in 1..k |-> [RestaurantCatalogue[i] EXCEPT !.coordinates = c[i]]] :
                c \in [1..k -> cs] } : k \in 0..n }

Quiescent ==
    /\ daily_groups = << >>
    /\ used_restaurants = {}
    /\ day_num = 1
    /\ idx = 1
    /\ day_schedule = << >>
    /\ current_time = DAY_START
    /\ overflow_warning = FALSE
    /\ integrated_days = << >>
    /\ plan = None
    /\ raised = FALSE
    /\ probe = << >>
    /\ center_coords = None
    /\ center_location = None
    /\ given = attractions
    /\ searched = << >>
    /\ state = None

\* create_schedule is called.
Init ==
    /\ pc = "geocode"
    /\ days \in 1..MaxDays
    /\ attractions \in AttractionLists(MaxPOI)
    /\ restaurants \in RestaurantLists(MaxRest, { None })
    /\ accommodation_location \in { None, Some(AccommodationPosition) }
    /\ Quiescent

Next ==
    \/ GeocodeAttractionsStep
    \/ ValidateGeocodingStep
    \/ FilterStep
    \/ SplitStep
    \/ OptimizeStep
    \/ DiningStep
    \/ BeginDay
    \/ ScheduleStop
    \/ GenerateStep

Spec == Init /\ [][Next]_vars

\* --------------------------------------------------- one day, simulated
\* The day lists of at most n stops, durations drawn from ds, coordinates
\* from cs.
DayLists(n, ds, cs) ==
    UNION { { [i \in 1..k |->
                  [Attraction(POINames[i], d[i]) EXCEPT !.coordinates = c[i]]] :
                d \in [1..k -> ds], c \in [1..k -> cs] } : k \in 1..n }

\* _integrate_dining is called for one day bucket, as create_schedule calls
\* it: with geocoded restaurants and an accommodation.
InitDay ==
    /\ pc = "day"
    /\ days = 1
    /\ attractions = << >>
    /\ \E day \in DayLists(MaxPOI, { None, Some(FullDay) }, { None, Some(2) }) :
          daily_groups = << day >>
    /\ restaurants \in { rs \in RestaurantLists(MaxRest, { Some(4) }) : Len(rs) = MaxRest }
    /\ accommodation_location = Some(AccommodationPosition)
    /\ used_restaurants = {}
    /\ day_num = 1
    /\ idx = 1
    /\ day_schedule = << >>
    /\ current_time = DAY_START
    /\ overflow_warning = FALSE
    /\ integrated_days = << >>
    /\ plan = None
    /\ raised = FALSE
    /\ probe = << >>
    /\ center_coords = None
    /\ center_location = None
    /\ given = attractions
    /\ searched = << >>
    /\ state = None

NextDay == BeginDay \/ ScheduleStop \/ GenerateStep

SpecDay == InitDay /\ [][NextDay]_vars

\* ------------------------------------------------- one long day, simulated
\* _integrate_dining is called for one day bucket of long visits, none of
\* them geocoded.
InitLongDay ==
    /\ pc = "day"
    /\ days = 1
    /\ attractions = << >>
    /\ \E day \in DayLists(MaxPOI + 1,
                          { Some(OneHour), Some(SixHours), Some(FullDay) },
                          { None }) :
          daily_groups = << day >>
    /\ restaurants \in { rs \in RestaurantLists(MaxRest, { Some(4) }) : Len(rs) = MaxRest }
    /\ accommodation_location = Some(AccommodationPosition)
    /\ used_restaurants = {}
    /\ day_num = 1
    /\ idx = 1
    /\ day_schedule = << >>
    /\ current_time = DAY_START
    /\ overflow_warning = FALSE
    /\ integrated_days = << >>
    /\ plan = None
    /\ raised = FALSE
    /\ probe = << >>
    /\ center_coords = None
    /\ center_location = None
    /\ given = attractions
    /\ searched = << >>
    /\ state = None

SpecLongDay == InitLongDay /\ [][NextDay]_vars

\* ------------------------------------------ one day, several candidates
\* The restaurant lists of n entries that follow each other in the
\* catalogue, the coordinate of each entry drawn from cs.
RestaurantWindows(n, cs) ==
    UNION { { [i \in 1..n |->
                  [RestaurantCatalogue[k + i - 1] EXCEPT !.coordinates = c[i]]] :
                c \in [1..n -> cs] } : k \in 1..(Len(RestaurantCatalogue) - n + 1) }

\* _integrate_dining is called for one day bucket of stops that are not
\* geocoded, with restaurants of which several can be candidates for the
\* same meal, geocoded or not.
InitMeal ==
    /\ pc = "day"
    /\ days = 1
    /\ attractions = << >>
    /\ \E day \in DayLists(MaxPOI, { None, Some(FullDay) }, { None }) :
          daily_groups = << day >>
    /\ restaurants \in RestaurantWindows(MaxRest, { None, Some(4) })
    /\ accommodation_location = Some(AccommodationPosition)
    /\ used_restaurants = {}
    /\ day_num = 1
    /\ idx = 1
    /\ day_schedule = << >>
    /\ current_time = DAY_START
    /\ overflow_warning = FALSE
    /\ integrated_days = << >>
    /\ plan = None
    /\ raised = FALSE
    /\ probe = << >>
    /\ center_coords = None
    /\ center_location = None
    /\ given = attractions
    /\ searched = << >>
    /\ state = None

SpecMeal == InitMeal /\ [][NextDay]_vars

\* ------------------------------------ _format_time_with_overflow, applied
InitFormat ==
    /\ pc = "format"
    /\ days = 1
    /\ attractions = << >>
    /\ restaurants = << >>
    /\ accommodation_location = None
    /\ daily_groups = << >>
    /\ used_restaurants = {}
    /\ day_num = 1
    /\ idx = 1
    /\ day_schedule = << >>
    /\ current_time \in 0..(MaxProbe * H)
    /\ overflow_warning = FALSE
    /\ integrated_days = << >>
    /\ plan = None
    /\ raised = FALSE
    /\ probe = << >>
    /\ center_coords = None
    /\ center_location = None
    /\ given = attractions
    /\ searched = << >>
    /\ state = None

FormatStep ==
    /\ pc = "format"
    /\ probe' = << FormatTime(current_time) >>
    /\ pc' = "formatted"
    /\ UNCHANGED << days, attractions, restaurants, accommodation_location,
                    daily_groups, used_restaurants, day_num, idx, day_schedule,
                    current_time, overflow_warning, integrated_days, plan,
                    raised,
                    center_coords, center_location, given, searched, state >>

SpecFormat == InitFormat /\ [][FormatStep]_vars

\* ------------------------------------ create_schedule, invalid day count
\* create_schedule is called with days = 0 or days < 0.
InitInvalidDays ==
    /\ pc = "geocode"
    /\ days \in (0 - MaxDays)..0
    /\ attractions \in AttractionLists(MaxPOI)
    /\ restaurants \in RestaurantLists(MaxRest, { None })
    /\ accommodation_location \in { None, Some(AccommodationPosition) }
    /\ Quiescent

\* range(days) is empty: no day bucket is built, _integrate_dining has no
\* day to simulate.
NextInvalidDays ==
    \/ GeocodeAttractionsStep
    \/ ValidateGeocodingStep
    \/ FilterStep
    \/ SplitStep
    \/ OptimizeStep
    \/ DiningStep
    \/ GenerateStep

SpecInvalidDays == InitInvalidDays /\ [][NextInvalidDays]_vars

\* ------------------------------------------------ workflow.py: plan_trip
\* What an agent call can raise: str(e) of its exception.
ErrorMessages == { "timeout", "no api key" }

\* str(e) of the ZeroDivisionError of line 439 of itinerary_agent.py.
DivisionByZero == "integer division or modulo by zero"

\* An accommodation dict.
Accommodation(name, coordinates) == [name |-> name, coordinates |-> coordinates]

\* What find_accommodations can return, the best one first: nothing, a
\* geocoded hotel, a hotel that is not geocoded.
AccommodationLists ==
    { << >>,
      << Accommodation("H1", Some(AccommodationPosition)) >>,
      << Accommodation("H2", None) >> }

\* workflow.py lines 157-171: initial_state.
InitialState(n_days) ==
    [days |-> n_days,
     attractions |-> << >>,
     itinerary |-> None,
     restaurants |-> << >>,
     accommodations |-> << >>,
     best_accommodation_location |-> None,
     current_step |-> "initialized",
     errors |-> << >>,
     complete |-> FALSE]

ErrorsOnlyLast(st, message) == << message >>

\* workflow.py lines 75, 111, 130, 148: state.get("errors", []) + [str(e)].
ErrorsWith(st, message) == Append(st.errors, message)

\* workflow.py lines 89-97: best_accommodation_location.
BestAccommodationLocation(accommodations) ==
    IF Len(accommodations) > 0 THEN accommodations[1].coordinates ELSE None

\* workflow.py lines 62-75: _research_node; its return value is merged into
\* the state, and the edge of line 55 leads to the accommodation node.  The
\* position "x_node" is the node "x" of the graph being due.
ResearchNode ==
    /\ pc = "research_node"
    /\ \/ \E found \in AttractionLists(MaxFound) :
            state' = Some([Get(state) EXCEPT
                              !.attractions = found,
                              !.current_step = "research_complete"])
       \/ \E e \in ErrorMessages :
            state' = Some([Get(state) EXCEPT
                              !.attractions = << >>,
                              !.errors = ErrorsWith(Get(state), e)])
    /\ pc' = "accommodation_node"
    /\ UNCHANGED << days, attractions, restaurants, accommodation_location,
                    daily_groups, used_restaurants, day_num, idx, day_schedule,
                    current_time, overflow_warning, integrated_days, plan,
                    raised, probe, center_coords, center_location, given,
                    searched >>

\* workflow.py lines 77-112: _accommodation_node, and the edge of line 56.
AccommodationNode ==
    /\ pc = "accommodation_node"
    /\ \/ \E found \in AccommodationLists :
            state' = Some([Get(state) EXCEPT
                              !.accommodations = found,
                              !.best_accommodation_location =
                                  BestAccommodationLocation(found),
                              !.current_step = "accommodation_complete"])
       \/ \E e \in ErrorMessages :
            state' = Some([Get(state) EXCEPT
                              !.accommodations = << >>,
                              !.best_accommodation_location = None,
                              !.errors = ErrorsWith(Get(state), e)])
    /\ pc' = "dining_node"
    /\ UNCHANGED << days, attractions, restaurants, accommodation_location,
                    daily_groups, used_restaurants, day_num, idx, day_schedule,
                    current_time, overflow_warning, integrated_days, plan,
                    raised, probe, center_coords, center_location, given,
                    searched >>

\* workflow.py lines 114-130: _dining_node, and the edge of line 57.
DiningNode ==
    /\ pc = "dining_node"
    /\ \/ \E found \in RestaurantLists(MaxFound, { None }) :
            state' = Some([Get(state) EXCEPT
                              !.restaurants = found,
                              !.current_step = "dining_complete"])
       \/ \E e \in ErrorMessages :
            state' = Some([Get(state) EXCEPT
                              !.restaurants = << >>,
                              !.errors = ErrorsWith(Get(state), e)])
    /\ pc' = "itinerary_node"
    /\ UNCHANGED << days, attractions, restaurants, accommodation_location,
                    daily_groups, used_restaurants, day_num, idx, day_schedule,
                    current_time, overflow_warning, integrated_days, plan,
                    raised, probe, center_coords, center_location, given,
                    searched >>

\* workflow.py lines 136-143: _itinerary_node calls create_schedule with the
\* attractions, days, restaurants and accommodation location of the state.
ItineraryNode ==
    /\ pc = "itinerary_node"
    /\ attractions' = Get(state).attractions
    /\ given' = Get(state).attractions
    /\ days' = Get(state).days
    /\ restaurants' = Get(state).restaurants
    /\ accommodation_location' = Get(state).best_accommodation_location
    /\ pc' = "geocode"
    /\ UNCHANGED << daily_groups, used_restaurants, day_num, idx, day_schedule,
                    current_time, overflow_warning, integrated_days, plan,
                    raised, probe, center_coords, center_location, searched,
                    state >>

\* workflow.py lines 144-148: create_schedule has returned or raised; the
\* return value of _itinerary_node is merged into the state, and the edge of
\* line 58 leads to END.  The attraction dicts of the state are those
\* create_schedule was given.
ItineraryNodeReturn ==
    /\ pc \in { "done", "raised" }
    /\ IsSome(state)
    /\ IF pc = "done"
       THEN state' = Some([Get(state) EXCEPT
                              !.attractions = given,
                              !.itinerary = plan,
                              !.complete = TRUE,
                              !.current_step = "complete"])
       ELSE state' = Some([Get(state) EXCEPT
                              !.attractions = given,
                              !.itinerary = None,
                              !.errors = ErrorsWith(Get(state), DivisionByZero)])
    /\ pc' = "END"
    /\ UNCHANGED << days, attractions, restaurants, accommodation_location,
                    daily_groups, used_restaurants, day_num, idx, day_schedule,
                    current_time, overflow_warning, integrated_days, plan,
                    raised, probe, center_coords, center_location, given,
                    searched >>

\* workflow.py lines 150-174: plan_trip is called and invokes the graph at
\* its entry point (line 54).
InitWorkflow ==
    /\ pc = "research_node"
    /\ \E n_days \in 0..MaxTripDays :
          /\ state = Some(InitialState(n_days))
          /\ days = n_days
    /\ attractions = << >>
    /\ restaurants = << >>
    /\ accommodation_location = None
    /\ daily_groups = << >>
    /\ used_restaurants = {}
    /\ day_num = 1
    /\ idx = 1
    /\ day_schedule = << >>
    /\ current_time = DAY_START
    /\ overflow_warning = FALSE
    /\ integrated_days = << >>
    /\ plan = None
    /\ raised = FALSE
    /\ probe = << >>
    /\ center_coords = None
    /\ center_location = None
    /\ given = << >>
    /\ searched = << >>

NextWorkflow ==
    \/ ResearchNode
    \/ AccommodationNode
    \/ DiningNode
    \/ ItineraryNode
    \/ GeocodeAttractionsStep
    \/ ValidateGeocodingStep
    \/ FilterStep
    \/ SplitStep
    \/ OptimizeStep
    \/ DiningStep
    \/ BeginDay
    \/ ScheduleStop
    \/ GenerateStep
    \/ ItineraryNodeReturn

SpecWorkflow == InitWorkflow /\ [][NextWorkflow]_vars

\* The graph runs a node whenever one is due, and so does create_schedule
\* its next step.
SpecWorkflowRuns == SpecWorkflow /\ WF_vars(NextWorkflow)

\* ------------------------------------------- _optimize_daily_routes, applied
\* The coordinates of the stops of a bucket: none, or a position at 0, 1 or
\* 3 km from the accommodation, or 1 km from it on the other side.
BucketPositions == { None, Some(0), Some(1), Some(2), Some(4) }

\* _optimize_daily_routes is called for the one bucket of a one-day trip,
\* with and without a start location.
InitOptimize ==
    /\ pc = "optimize"
    /\ days = 1
    /\ attractions \in DayLists(MaxPOI + 1, { None }, BucketPositions)
    /\ daily_groups = << attractions >>
    /\ restaurants = << >>
    /\ accommodation_location \in { None, Some(AccommodationPosition) }
    /\ used_restaurants = {}
    /\ day_num = 1
    /\ idx = 1
    /\ day_schedule = << >>
    /\ current_time = DAY_START
    /\ overflow_warning = FALSE
    /\ integrated_days = << >>
    /\ plan = None
    /\ raised = FALSE
    /\ probe = << >>
    /\ center_coords = None
    /\ center_location = None
    /\ given = attractions
    /\ searched = << >>
    /\ state = None

SpecOptimize == InitOptimize /\ [][OptimizeStep]_vars

\* --------------------------------------------------- _parse_duration, applied
\* The words the duration texts are made of.
DurationWords ==
    { <<"half">>, <<"full">>, <<"day">>, <<"2">>, <<"2", "3">>, <<"1.5">>,
      <<"hours">>, <<"garbage">> }

\* The texts of at most n words.
DurationTexts(n) == UNION { [1..k -> DurationWords] : k \in 0..n }

\* _parse_duration is called with a text, a number or None.
InitParse ==
    /\ pc = "parse"
    /\ probe \in { << v >> : v \in { TextValue(t) : t \in DurationTexts(MaxWords) }
                                     \cup { NumberValue, NoneValue } }
    /\ days = 1
    /\ attractions = << >>
    /\ restaurants = << >>
    /\ accommodation_location = None
    /\ daily_groups = << >>
    /\ used_restaurants = {}
    /\ day_num = 1
    /\ idx = 1
    /\ day_schedule = << >>
    /\ current_time = DAY_START
    /\ overflow_warning = FALSE
    /\ integrated_days = << >>
    /\ plan = None
    /\ raised = FALSE
    /\ center_coords = None
    /\ center_location = None
    /\ given = attractions
    /\ searched = << >>
    /\ state = None

\* probe becomes << argument, returned hours >>.
ParseStep ==
    /\ pc = "parse"
    /\ probe' = << probe[1], ParseValue(probe[1]) >>
    /\ pc' = "parsed"
    /\ UNCHANGED << days, attractions, restaurants, accommodation_location,
                    daily_groups, used_restaurants, day_num, idx, day_schedule,
                    current_time, overflow_warning, integrated_days, plan,
                    raised, center_coords, center_location, given, searched, state >>

SpecParse == InitParse /\ [][ParseStep]_vars

\* -------------------------------------------------- matrix_distances, applied
\* What the matrix service answers with: metres and seconds, or null.
RawDistances == { None, Some(5000), Some(80004) }
RawDurations == { None, Some(1790), Some(9000) }

\* The answers of the service to a request for n destinations: an HTTP
\* error, or rows of at most n entries each.
MatrixAnswers(n) ==
    { [http_error |-> TRUE, distances |-> << >>, durations |-> << >>] }
    \cup { [http_error |-> FALSE, distances |-> ds, durations |-> ss] :
             ds \in UNION { [1..k -> RawDistances] : k \in 0..n },
             ss \in UNION { [1..k -> RawDurations] : k \in 0..n } }

\* matrix_distances is called for a batch of 1..MaxDest destinations; probe
\* holds the number of destinations and the answer of the service.
InitMatrix ==
    /\ pc = "matrix"
    /\ probe \in UNION { { << n, a >> : a \in MatrixAnswers(n) } : n \in 1..MaxDest }
    /\ days = 1
    /\ attractions = << >>
    /\ restaurants = << >>
    /\ accommodation_location = None
    /\ daily_groups = << >>
    /\ used_restaurants = {}
    /\ day_num = 1
    /\ idx = 1
    /\ day_schedule = << >>
    /\ current_time = DAY_START
    /\ overflow_warning = FALSE
    /\ integrated_days = << >>
    /\ plan = None
    /\ raised = FALSE
    /\ center_coords = None
    /\ center_location = None
    /\ given = attractions
    /\ searched = << >>
    /\ state = None

\* probe becomes << number of destinations, answer, what the call gives >>.
MatrixStep ==
    /\ pc = "matrix"
    /\ probe' = << probe[1], probe[2], MatrixDistances(probe[1], probe[2]) >>
    /\ pc' = "matrix_done"
    /\ UNCHANGED << days, attractions, restaurants, accommodation_location,
                    daily_groups, used_restaurants, day_num, idx, day_schedule,
                    current_time, overflow_warning, integrated_days, plan,
                    raised, center_coords, center_location, given, searched, state >>

SpecMatrix == InitMatrix /\ [][MatrixStep]_vars

\* ================================================================ properties
\* The day lists built so far by _integrate_dining: the finished days and
\* the day in progress.
AllSchedules == Append(integrated_days, day_schedule)

\* The positions <<day, index>> of the meals in a sequence of day lists.
MealsOf(scheds) ==
    { p \in UNION { { << d, i >> : i \in 1..Len(scheds[d]) } : d \in 1..Len(scheds) } :
        scheds[p[1]][p[2]].is_meal }

\* The positions <<day, index>> of the meal activities of the plan.
PlanMeals ==
    IF IsSome(plan)
    THEN LET it == Get(plan).itinerary
         IN  { p \in UNION { { << d, i >> : i \in 1..Len(it[d].activities) } :
                             d \in 1..Len(it) } :
                 it[p[1]].activities[p[2]].type = "meal" }
    ELSE {}

\* C1: no dining option, identified by its name, is the subject of more than
\* one meal across all the days of a trip: the meals scheduled so far bear
\* pairwise different names, every one of them is in the trip-wide used set,
\* and the meals of the returned plan bear pairwise different names.
C1_NoRestaurantTwice ==
    /\ \A p, q \in MealsOf(AllSchedules) :
          p # q => AllSchedules[p[1]][p[2]].name # AllSchedules[q[1]][q[2]].name
    /\ \A p \in MealsOf(AllSchedules) :
          AllSchedules[p[1]][p[2]].name \in used_restaurants
    /\ \A p, q \in PlanMeals :
          p # q => Get(plan).itinerary[p[1]].activities[p[2]].name
                      # Get(plan).itinerary[q[1]].activities[q[2]].name

\* A returned plan with a meal on each of two different days: the second
\* was selected while the first was in the used set.
C1_Witness ==
    /\ pc = "done"
    /\ \E p, q \in PlanMeals : p[1] # q[1]
    /\ Cardinality(used_restaurants) = 2

\* C2: in every day of every plan, and in every day list while it is built,
\* the activities are in non-decreasing order of their scheduled clock value,
\* a 'Day+N HH:MM' counting as N*24h + HH:MM.
C2_TimesNonDecreasing ==
    /\ \A d \in 1..Len(AllSchedules) : \A i, j \in 1..Len(AllSchedules[d]) :
          i < j => TimeValue(Get(AllSchedules[d][i].scheduled_time))
                      <= TimeValue(Get(AllSchedules[d][j].scheduled_time))
    /\ IsSome(plan) =>
          \A d \in 1..Len(Get(plan).itinerary) :
             LET acts == Get(plan).itinerary[d].activities
             IN  \A i, j \in 1..Len(acts) :
                    i < j => TimeValue(acts[i].time) <= TimeValue(acts[j].time)

\* A returned plan whose day holds a meal and runs past midnight: an activity
\* before 24:00 is followed by one scheduled at 'Day+1 ...'.
C2_Witness ==
    /\ pc = "done"
    /\ IsSome(plan)
    /\ \E d \in 1..Len(Get(plan).itinerary) :
          LET acts == Get(plan).itinerary[d].activities
          IN  /\ \E i \in 1..Len(acts) : acts[i].type = "meal"
              /\ \E i \in 1..Len(acts) :
                    /\ i < Len(acts)
                    /\ ~StartsWithDayPlus(acts[i].time)
                    /\ StartsWithDayPlus(acts[i + 1].time)

\* C3: a clock value t below 24 is formatted 'HH:MM'; a value of 24 or more
\* is formatted 'Day+N HH:MM' with N = floor(t / 24) and HH:MM the value of
\* t mod 24; HH and MM are the whole hours and the whole minutes of it.
C3_FormatTime ==
    pc = "formatted" =>
        LET t == current_time
            s == probe[1]
            minute_of_day == (t % DAY) \div MINUTE
        IN  /\ t < DAY => s.prefix = "" /\ s.n = 0
            /\ t >= DAY => s.prefix = "Day+" /\ s.n * DAY <= t /\ t < (s.n + 1) * DAY
            /\ s.hh \in 0..23
            /\ s.mm \in 0..59
            /\ s.hh * 60 + s.mm = minute_of_day

\* The clock value 24.0 exactly has been formatted, and so has a value in the
\* third day.
C3_Witness ==
    /\ pc = "formatted"
    /\ current_time = DAY \/ current_time = 2 * DAY + 13 * H + 7 * MINUTE
    /\ StartsWithDayPlus(probe[1])

\* The stop at index i of a day list is an attraction scheduled at 23:30
\* whose duration is one hour, with no travel added after it and no meal
\* inserted after it: the next item of the list is the next attraction.
LateStopOfOneHour(sched, i) ==
    /\ i < Len(sched)
    /\ ~sched[i].is_meal
    /\ ~sched[i + 1].is_meal
    /\ sched[i].at = Some(23 * H + H \div 2)
    /\ ParseDuration(sched[i].duration, DefaultDurationText) = 1 * H
    /\ LegTravel(sched[i].travel_to_next) = 0

\* C4, as the specification states it: when the clock is at 23.5 at a stop
\* of one hour, with no travel and no meal, the next item is scheduled at
\* 'Day+1 00:30'.
C4_NextAtHalfPastMidnight ==
    \A d \in 1..Len(AllSchedules) : \A i \in 1..Len(AllSchedules[d]) :
        LateStopOfOneHour(AllSchedules[d], i) =>
            AllSchedules[d][i + 1].scheduled_time
                = Some([prefix |-> "Day+", n |-> 1, hh |-> 0, mm |-> 30])

\* C4, as the code has it: when the clock is at 23.5 at a stop of one hour,
\* with no travel and no meal, the next item is scheduled at 'Day+1 00:45',
\* the quarter-hour buffer being added after the stop.
C4_NextAtQuarterToOne ==
    \A d \in 1..Len(AllSchedules) : \A i \in 1..Len(AllSchedules[d]) :
        LateStopOfOneHour(AllSchedules[d], i) =>
            AllSchedules[d][i + 1].scheduled_time
                = Some([prefix |-> "Day+", n |-> 1, hh |-> 0, mm |-> 45])

\* A one-hour stop at 23:30 has been followed by the next stop.
C4_Witness ==
    \E d \in 1..Len(AllSchedules) : \E i \in 1..Len(AllSchedules[d]) :
        LateStopOfOneHour(AllSchedules[d], i)

\* The effective time (clock mod 24) at which the meal at index i of a day
\* list was decided: the clock after the attraction it follows.
DecidedAt(sched, i) == Get(sched[i - 1].decided_at) % DAY

\* The number of attractions among the first i items of a day list.
StopsUpTo(sched, i) ==
    Cardinality({ k \in 1..i : ~sched[k].is_meal })

IsMealOfType(sched, i, meal_type) ==
    sched[i].is_meal /\ sched[i].meal_type_scheduled = meal_type

MealCount(sched, meal_type) ==
    Cardinality({ i \in 1..Len(sched) : IsMealOfType(sched, i, meal_type) })

\* C5, as the specification states it: a lunch is inserted after a stop only
\* if the effective time of the decision is in [11.5, 14.0), 14.0 excluded,
\* and the day has no lunch yet; every day holds at most one lunch.
C5_LunchBeforeTwo ==
    \A d \in 1..Len(AllSchedules) :
        /\ \A i \in 1..Len(AllSchedules[d]) :
              IsMealOfType(AllSchedules[d], i, "lunch") =>
                  /\ (23 * H) \div 2 <= DecidedAt(AllSchedules[d], i)
                  /\ DecidedAt(AllSchedules[d], i) < 14 * H
                  /\ \A j \in 1..(i - 1) : ~IsMealOfType(AllSchedules[d], j, "lunch")
        /\ MealCount(AllSchedules[d], "lunch") <= 1

\* C5, as the code has it: a lunch is inserted after a stop only if the
\* effective time of the decision is in [11.5, 14.0], 14.0 included, and the
\* day has no lunch yet; every day holds at most one lunch.
C5_LunchUpToTwo ==
    \A d \in 1..Len(AllSchedules) :
        /\ \A i \in 1..Len(AllSchedules[d]) :
              IsMealOfType(AllSchedules[d], i, "lunch") =>
                  /\ (23 * H) \div 2 <= DecidedAt(AllSchedules[d], i)
                  /\ DecidedAt(AllSchedules[d], i) <= 14 * H
                  /\ \A j \in 1..(i - 1) : ~IsMealOfType(AllSchedules[d], j, "lunch")
        /\ MealCount(AllSchedules[d], "lunch") <= 1

\* A lunch decided at 14.0 exactly, after a stop at which no lunch could be
\* found although the clock was in the window.
C5_Witness ==
    \E d \in 1..Len(AllSchedules) : \E i \in 1..Len(AllSchedules[d]) :
        /\ IsMealOfType(AllSchedules[d], i, "lunch")
        /\ DecidedAt(AllSchedules[d], i) = 14 * H
        /\ i > 2

\* The stop before the meal at index i is the last stop of its day.
AfterLastStop(d, i) ==
    StopsUpTo(AllSchedules[d], i) = Len(daily_groups[d])

\* C6, as the specification states it: a dinner is inserted after a stop
\* only if the effective time of the decision is in [17.5, 20.0), 20.0
\* excluded, or the stop is the last of the day, and the effective time is
\* after 17.0, and the day has no dinner yet; every day holds at most one
\* dinner.
C6_DinnerBeforeEight ==
    \A d \in 1..Len(AllSchedules) :
        /\ \A i \in 1..Len(AllSchedules[d]) :
              IsMealOfType(AllSchedules[d], i, "dinner") =>
                  /\ \/ /\ (35 * H) \div 2 <= DecidedAt(AllSchedules[d], i)
                        /\ DecidedAt(AllSchedules[d], i) < 20 * H
                     \/ AfterLastStop(d, i)
                  /\ DecidedAt(AllSchedules[d], i) > 17 * H
                  /\ \A j \in 1..(i - 1) : ~IsMealOfType(AllSchedules[d], j, "dinner")
        /\ MealCount(AllSchedules[d], "dinner") <= 1

\* C6, as the code has it: the window is [17.5, 20.0], 20.0 included.
\* A dinner is inserted after a stop only if the effective time of the
\* decision is in that window or the stop is the last of the day, and the
\* effective time is after 17.0, and the day has no dinner yet; every day
\* holds at most one dinner.
C6_DinnerUpToEight ==
    \A d \in 1..Len(AllSchedules) :
        /\ \A i \in 1..Len(AllSchedules[d]) :
              IsMealOfType(AllSchedules[d], i, "dinner") =>
                  /\ \/ /\ (35 * H) \div 2 <= DecidedAt(AllSchedules[d], i)
                        /\ DecidedAt(AllSchedules[d], i) <= 20 * H
                     \/ AfterLastStop(d, i)
                  /\ DecidedAt(AllSchedules[d], i) > 17 * H
                  /\ \A j \in 1..(i - 1) : ~IsMealOfType(AllSchedules[d], j, "dinner")
        /\ MealCount(AllSchedules[d], "dinner") <= 1

\* A dinner decided at 20.0 exactly after a stop that is not the last of
\* its day.
C6_Witness ==
    \E d \in 1..Len(AllSchedules) : \E i \in 1..Len(AllSchedules[d]) :
        /\ IsMealOfType(AllSchedules[d], i, "dinner")
        /\ DecidedAt(AllSchedules[d], i) = 20 * H
        /\ ~AfterLastStop(d, i)

\* The travel time by which the clock was advanced after stop k of day d,
\* once the stop is scheduled: what the clock gained beyond the stop's
\* duration and the quarter-hour buffer.
LegApplied(d, k) ==
    Get(daily_groups[d][k].decided_at) - Get(daily_groups[d][k].at)
        - ParseDuration(daily_groups[d][k].duration, DefaultDurationText)
        - H \div 4

\* Both stops of the leg from stop k have coordinates, the lookup for the
\* pair answered with status OK, the distance is at most 100 km and the
\* duration at most 2 h.
LegUsable(d, k) ==
    /\ k < Len(daily_groups[d])
    /\ IsSome(daily_groups[d][k].coordinates)
    /\ IsSome(daily_groups[d][k + 1].coordinates)
    /\ IsSome(daily_groups[d][k].leg)
    /\ Get(daily_groups[d][k].leg).status = "OK"
    /\ Get(daily_groups[d][k].leg).distance_km <= 100
    /\ Get(daily_groups[d][k].leg).duration_h <= 2 * H

\* C7: after a stop, the clock is advanced by the travel time to the next
\* stop if and only if both stops have coordinates, the lookup for the pair
\* succeeded with status OK, the distance is at most 100 km and the duration
\* at most 2 h; in every other case the clock is not advanced for the leg.
C7_LegTravelApplied ==
    \A d \in 1..Len(daily_groups) : \A k \in 1..Len(daily_groups[d]) :
        IsSome(daily_groups[d][k].decided_at) =>
            /\ LegUsable(d, k) =>
                  LegApplied(d, k) = Get(daily_groups[d][k].leg).duration_h
            /\ ~LegUsable(d, k) => LegApplied(d, k) = 0

\* A day in which one leg advanced the clock and another leg, whose lookup
\* answered OK with a route out of bounds, did not.
C7_Witness ==
    \E d \in 1..Len(daily_groups) : \E k, m \in 1..Len(daily_groups[d]) :
        /\ IsSome(daily_groups[d][k].decided_at)
        /\ IsSome(daily_groups[d][m].decided_at)
        /\ LegUsable(d, k)
        /\ LegApplied(d, k) > 0
        /\ IsSome(daily_groups[d][m].leg)
        /\ Get(daily_groups[d][m].leg).status = "OK"
        /\ ~LegUsable(d, m)

\* The travel time by which the clock was advanced to reach the meal at
\* index i of a day list: the meal's clock less the clock of the decision.
RestaurantTravelApplied(sched, i) ==
    Get(sched[i].at) - Get(sched[i - 1].decided_at)

\* The travel time by which the clock was advanced from the meal at index i
\* to the next stop: what the clock gained beyond the hour of the meal and
\* the buffer.
AfterMealApplied(sched, i) ==
    Get(sched[i + 1].at) - Get(sched[i].at) - 1 * H - H \div 4

\* C8: every travel that advances the clock is within the sanity bounds
\* (distance at most 100 km, duration at most 2 h): the leg to the next
\* stop, the travel from the current location to the selected dining option
\* and the travel from the dining option to the next stop.
C8_AppliedTravelWithinBounds ==
    /\ \A d \in 1..Len(daily_groups) : \A k \in 1..Len(daily_groups[d]) :
          (IsSome(daily_groups[d][k].decided_at) /\ LegApplied(d, k) > 0) =>
              /\ Get(daily_groups[d][k].travel_to_next).distance_km <= 100
              /\ Get(daily_groups[d][k].travel_to_next).duration_h <= 2 * H
    /\ \A d \in 1..Len(AllSchedules) : \A i \in 1..Len(AllSchedules[d]) :
          LET sched == AllSchedules[d]
          IN  sched[i].is_meal =>
                /\ RestaurantTravelApplied(sched, i) > 0 =>
                      /\ Get(sched[i].distance_from_current).distance_km <= 100
                      /\ Get(sched[i].distance_from_current).duration_minutes
                             <= 2 * 60
                /\ (i < Len(sched) /\ AfterMealApplied(sched, i) > 0) =>
                      /\ Get(sched[i].travel_to_next).distance_km <= 100
                      /\ Get(sched[i].travel_to_next).duration_h <= 2 * H

\* The number of stops day d was given: none when no attraction was left
\* to split.
StopsOfDay(d) == IF Len(daily_groups) = 0 THEN 0 ELSE Len(daily_groups[d])

\* C9: the returned plan holds exactly `days` day records numbered 1..days
\* in order, and a day with no stops is an explicit record with an empty
\* activity list and zero counts.
C9_OneRecordPerDay ==
    pc = "done" =>
        /\ IsSome(plan)
        /\ Len(Get(plan).itinerary) = days
        /\ Len(daily_groups) \in {0, days}
        /\ \A d \in 1..days :
              /\ Get(plan).itinerary[d].day = d
              /\ StopsOfDay(d) = 0 =>
                    /\ Get(plan).itinerary[d].activities = << >>
                    /\ Get(plan).itinerary[d].total_activities = 0
                    /\ Get(plan).itinerary[d].total_meals = 0

\* A plan for more than one day has been returned whose first day has stops
\* and whose last day has none.
C9_Witness ==
    /\ pc = "done"
    /\ days > 1
    /\ Len(daily_groups) = days
    /\ Len(daily_groups[1]) > 0
    /\ Len(daily_groups[days]) = 0
    /\ Get(plan).itinerary[days].activities = << >>

\* C10: create_schedule never raises, whatever the geocode and distance
\* calls answered (no data, an error status, an exception): no exception
\* leaves it, and when it is over it has returned a plan, which counts every
\* attraction that was left to schedule.
C10_NeverRaises ==
    /\ ~raised
    /\ pc # "raised"
    /\ pc = "done" =>
          /\ IsSome(plan)
          /\ Get(plan).summary.total_attractions = Len(attractions)

\* A plan has been returned although an attraction could not be geocoded
\* and the distance lookup of a leg failed.
C10_Witness ==
    /\ pc = "done"
    /\ IsSome(plan)
    /\ \E d \in 1..Len(daily_groups) : \E k, m \in 1..Len(daily_groups[d]) :
          /\ ~IsSome(daily_groups[d][k].coordinates)
          /\ ~daily_groups[d][k].geocoding_error
          /\ IsSome(daily_groups[d][m].leg)
          /\ Get(daily_groups[d][m].leg).status = "unavailable"

\* ---------------------------------------------------------------- C11
\* C11: create_schedule called with an invalid day count (days = 0 or
\* days < 0) signals an error to its caller and never returns a plan: while
\* days <= 0 no plan is returned, and the call can only end raising.
C11_InvalidDaysSignalError ==
    days <= 0 =>
        /\ ~IsSome(plan)
        /\ pc # "done"

\* ---------------------------------------------------------------- C12
\* The list create_schedule holds after step 3 is the validated list `given`
\* filtered; attractions is not changed after step 3.
\* A POI passes the single-day filter for the center c.
WithinDayTrip(a, c) ==
    IF IsSome(a.coordinates)
    THEN HaversineDistance(c, Get(a.coordinates)) <= 100
    ELSE ~a.geocoding_error

\* The centers of the trip: the accommodation, or else what the destination
\* geocodes to.
TripCenters ==
    IF IsSome(accommodation_location)
    THEN { Get(accommodation_location) } ELSE CenterPositions

\* C12 as stated: after step 3, with days = 1 the list holds exactly the
\* POIs passing the filter (with coordinates: at most 100 km from the center;
\* without: not flagged geocoding_error), and with days >= 2 every POI.
C12_FilterWheneverOneDay ==
    pc = "split" =>
        IF days = 1
        THEN \E c \in TripCenters :
                attractions = SelectSeq(given, LAMBDA a : WithinDayTrip(a, c))
        ELSE attractions = given

\* C12, amended: the filter is applied exactly when days = 1 and a center
\* is known (the accommodation, or else a geocoded destination); then the
\* list holds exactly the POIs passing the filter for that center.  With
\* days = 1 and no center (no accommodation, the destination lookup raising
\* or empty) and with days >= 2 no POI is excluded.
C12_FilterWhenCenterKnown ==
    pc = "split" =>
        /\ IsSome(center_location) => days = 1 /\ Get(center_location) \in TripCenters
        /\ days = 1 /\ IsSome(accommodation_location) =>
              center_location = accommodation_location
        /\ IF IsSome(center_location)
           THEN attractions =
                    SelectSeq(given,
                              LAMBDA a : WithinDayTrip(a, Get(center_location)))
           ELSE attractions = given

\* With days = 1 a POI geocoded 120 km away has been excluded, and a POI
\* without coordinates that is not flagged has been retained.
C12_Witness ==
    /\ pc = "split"
    /\ days = 1
    /\ IsSome(center_location)
    /\ \E i \in 1..Len(given) :
          /\ given[i].coordinates = Some(120)
          /\ \A k \in 1..Len(attractions) : attractions[k].name # given[i].name
    /\ \E k \in 1..Len(attractions) :
          /\ ~IsSome(attractions[k].coordinates)
          /\ ~attractions[k].geocoding_error

\* ---------------------------------------------------------------- C13
\* C13: validation against the center (step 2) clears the coordinate of a
\* POI and sets its geocoding_error exactly when the POI has a coordinate
\* more than 50 km from the center; every other POI is left as it was, the
\* list keeps its length and order, and when the center could not be
\* geocoded every POI is left as it was.
C13_ValidationClearsFarCoordinates ==
    [][pc = "validate" /\ pc' = "filter" =>
        /\ Len(attractions') = Len(attractions)
        /\ \A i \in 1..Len(attractions) :
              IF /\ IsSome(center_coords')
                 /\ IsSome(attractions[i].coordinates)
                 /\ HaversineDistance(Get(center_coords'),
                                      Get(attractions[i].coordinates)) > 50
              THEN attractions'[i] =
                       [attractions[i] EXCEPT !.coordinates = None,
                                              !.geocoding_error = TRUE]
              ELSE attractions'[i] = attractions[i]]_vars

\* Validation is over with a geocoded center: one POI has been rejected, one
\* within 50 km has kept its coordinate, one without coordinate is unflagged.
C13_Witness ==
    /\ pc = "filter"
    /\ IsSome(center_coords)
    /\ \E i, j, k \in 1..Len(attractions) :
          /\ attractions[i].geocoding_error
          /\ ~IsSome(attractions[i].coordinates)
          /\ IsSome(attractions[j].coordinates)
          /\ ~attractions[j].geocoding_error
          /\ ~IsSome(attractions[k].coordinates)
          /\ ~attractions[k].geocoding_error

\* ---------------------------------------------------------------- C14
\* The positions <<day, index>> of the attraction activities of the returned
\* plan that bear the name n.
PlanAttractions(n) ==
    { da \in UNION { { << d, k >> : k \in 1..Len(Get(plan).itinerary[d].activities) }
                       : d \in 1..Len(Get(plan).itinerary) } :
        /\ Get(plan).itinerary[da[1]].activities[da[2]].type = "attraction"
        /\ Get(plan).itinerary[da[1]].activities[da[2]].name = n }

\* C14: every input POI appears exactly once as an attraction of the
\* returned plan, with or without a coordinate (geocoding empty, failed, or
\* rejected by validation), unless days = 1 and the single-day filter
\* excluded it (then it does not appear); no POI appears twice.
C14_EveryPOIOnce ==
    (pc = "done" /\ IsSome(plan)) =>
        \A i \in 1..Len(given) :
            \/ Cardinality(PlanAttractions(given[i].name)) = 1
            \/ /\ Cardinality(PlanAttractions(given[i].name)) = 0
               /\ days = 1
               /\ \E c \in TripCenters : ~WithinDayTrip(given[i], c)

\* A plan for several days has been returned for three POIs: one rejected
\* by validation, one that could not be geocoded, one with its coordinate.
C14_Witness ==
    /\ pc = "done"
    /\ days > 1
    /\ Len(given) = 3
    /\ \E i, j, k \in 1..Len(given) :
          /\ given[i].geocoding_error
          /\ ~IsSome(given[j].coordinates) /\ ~given[j].geocoding_error
          /\ IsSome(given[k].coordinates)
    /\ \A i \in 1..Len(given) : Cardinality(PlanAttractions(given[i].name)) = 1

\* ---------------------------------------------------------------- C15
\* The bucket handed to the optimizer is the list `attractions` (one day);
\* its result is daily_groups[1].
\* The input positions of the geocoded stops.
GeocodedStops == { i \in 1..Len(attractions) : IsSome(attractions[i].coordinates) }

\* The input position of the k-th stop of the result (names are unique).
InputPosition(k) ==
    CHOOSE i \in 1..Len(attractions) : attractions[i].name = daily_groups[1][k].name

\* The location the k-th stop of the result is chosen from.
LocationBefore(k) ==
    IF k > 1 THEN Get(daily_groups[1][k - 1].coordinates)
    ELSE IF IsSome(accommodation_location) THEN Get(accommodation_location)
    ELSE Get(attractions[CHOOSE i \in GeocodedStops :
                             \A j \in GeocodedStops : i <= j].coordinates)

\* C15: for a bucket with more than 2 geocoded stops the optimizer returns a
\* rearrangement of the bucket in which the k-th stop, for each k up to the
\* number of geocoded stops, is the geocoded stop not yet taken nearest to
\* the current location (the start location if given, else the first
\* geocoded stop, then the stop taken last), the earliest in the input among
\* equally near ones, and in which the stops without coordinates follow in
\* their input order.
C15_GreedyNearestNeighbour ==
    (pc = "dining" /\ Cardinality(GeocodedStops) > 2) =>
        LET out == daily_groups[1]
            n == Cardinality(GeocodedStops)
        IN  /\ Len(out) = Len(attractions)
            /\ \A k \in 1..Len(out) :
                  \E i \in 1..Len(attractions) : out[k] = attractions[i]
            /\ \A k, m \in 1..Len(out) : k # m => out[k].name # out[m].name
            /\ \A k \in 1..n :
                  /\ InputPosition(k) \in GeocodedStops
                  /\ \A j \in GeocodedStops \ { InputPosition(m) : m \in 1..(k - 1) } :
                        LET d_k == HaversineDistance(LocationBefore(k),
                                                     Get(out[k].coordinates))
                            d_j == HaversineDistance(LocationBefore(k),
                                                     Get(attractions[j].coordinates))
                        IN  d_k < d_j \/ (d_k = d_j /\ InputPosition(k) <= j)
            /\ \A k \in (n + 1)..Len(out) : ~IsSome(out[k].coordinates)
            /\ \A k, m \in (n + 1)..Len(out) :
                  k < m => InputPosition(k) < InputPosition(m)

\* The optimizer has run from a start location on a bucket given as a stop
\* 3 km away, a stop without coordinates, a stop 1 km away and a stop at the
\* start: the 1 km stop now precedes the 3 km stop.
C15_Witness ==
    /\ pc = "dining"
    /\ accommodation_location = Some(1)
    /\ Len(attractions) = 4
    /\ attractions[1].coordinates = Some(4)
    /\ attractions[2].coordinates = None
    /\ attractions[3].coordinates = Some(2)
    /\ attractions[4].coordinates = Some(1)
    /\ daily_groups[1] =
          << attractions[4], attractions[3], attractions[1], attractions[2] >>

\* ---------------------------------------------------------------- C16
\* C16: for a bucket with at most 2 geocoded stops, however many stops
\* without coordinates it holds, the optimizer returns the stops in exactly
\* the input order.
C16_FewGeocodedUnchanged ==
    (pc = "dining" /\ Cardinality(GeocodedStops) <= 2) =>
        daily_groups[1] = attractions

\* The optimizer has run from a start location on a bucket of two geocoded
\* stops, the farther one first, and a stop without coordinates before them.
C16_Unchanged_Witness ==
    /\ pc = "dining"
    /\ accommodation_location = Some(1)
    /\ Len(attractions) = 3
    /\ attractions[1].coordinates = None
    /\ attractions[2].coordinates = Some(4)
    /\ attractions[3].coordinates = Some(1)
    /\ daily_groups[1] = attractions

\* ---------------------------------------------------------------- C17
\* The text starts with a numeric token: the first part of its first word is
\* a number.
StartsWithNumber(text) ==
    /\ Len(text) > 0
    /\ Len(text[1]) > 0
    /\ IsSome(FloatOf(text[1][1]))

\* C17: parseDuration returns the leading number for a text starting with a
\* numeric token (the lower bound of a range), 4 for 'half day' and 8 for
\* 'full day', and 2 for any other input, a number or a missing value
\* included; it always returns.  (A text that does not start with a number
\* and holds 'half' or 'full' is allowed 4 or 8 here, whatever else it
\* holds.)
C17_ParseDuration ==
    pc = "parsed" =>
        LET v == probe[1]
            hours == probe[2]
        IN  IF v.kind # "text" THEN hours = 2 * H
            ELSE IF StartsWithNumber(v.text)
            THEN hours = Get(FloatOf(v.text[1][1]))
            ELSE IF v.text = HalfDay THEN hours = 4 * H
            ELSE IF v.text = FullDay THEN hours = 8 * H
            ELSE IF \E part \in PartsOf(v.text) : HasHalf(part) \/ HasFull(part)
            THEN hours \in { 4 * H, 8 * H }
            ELSE hours = 2 * H

\* ---------------------------------------------------------------- C18
\* The service answered entry i of the batch with a distance and a duration.
Answered(answer, i) ==
    /\ i <= Len(answer.distances) /\ answer.distances[i] # None
    /\ i <= Len(answer.durations) /\ answer.durations[i] # None

\* C18: unless the request as a whole is refused, a batched distance lookup
\* returns one result per destination, in the order of the destinations;
\* the entry of a destination the service gave no distance or no duration
\* for is marked ERR, and it alone: every destination the service answered
\* gets an OK entry holding its own distance and duration, whichever other
\* entries failed.
C18_OneResultPerDestination ==
    pc = "matrix_done" =>
        LET n == probe[1]
            answer == probe[2]
            out == probe[3]
        IN  /\ out.raised <=> answer.http_error
            /\ ~out.raised =>
                  /\ Len(out.results) = n
                  /\ \A i \in 1..n :
                        IF Answered(answer, i)
                        THEN /\ out.results[i].status = "OK"
                             /\ out.results[i].distance_km * 10 + 5
                                    >= Get(answer.distances[i])
                             /\ out.results[i].distance_km * 10 - 5
                                    <= Get(answer.distances[i])
                             /\ out.results[i].duration_h * 12 + 18
                                    >= Get(answer.durations[i])
                             /\ out.results[i].duration_h * 12 - 18
                                    <= Get(answer.durations[i])
                        ELSE out.results[i].status = "ERR"

\* A batch of three destinations whose second entry failed: the first and
\* the third are OK, with different values.
C18_Witness ==
    /\ pc = "matrix_done"
    /\ probe[1] = 3
    /\ ~probe[3].raised
    /\ probe[3].results[1].status = "OK"
    /\ probe[3].results[2].status = "ERR"
    /\ probe[3].results[3].status = "OK"
    /\ probe[3].results[1].distance_km = 500
    /\ probe[3].results[3].distance_km = 8000
    /\ probe[3].results[3].duration_h = (5 * H) \div 2

\* ---------------------------------------------------------------- C19
\* An entry of the plan's warnings is known by the name of the item it is
\* about.
\* The POI was rejected: its coordinate was cleared by validation, or the
\* single-day filter excluded it.
Rejected(i) ==
    \/ given[i].geocoding_error
    \/ \A k \in 1..Len(attractions) : attractions[k].name # given[i].name

\* The lookup for the leg from the item gave a segment that was dropped as
\* unrealistic.
SegmentDropped(item) ==
    /\ IsSome(item.leg)
    /\ Get(item.leg).status = "OK"
    /\ \/ Get(item.leg).distance_km > 100
       \/ Get(item.leg).duration_h > 2 * H

\* C19: the warnings of the returned plan hold an entry for every POI whose
\* geocoding was rejected (coordinate cleared by validation, or excluded by
\* the single-day filter) and for every travel segment dropped as
\* unrealistic (more than 100 km or more than 2 h).
C19_WarningsForRejectionsAndDrops ==
    (pc = "done" /\ IsSome(plan)) =>
        /\ \A i \in 1..Len(given) :
              Rejected(i) => given[i].name \in Get(plan).warnings
        /\ \A d \in 1..Len(integrated_days) : \A k \in 1..Len(integrated_days[d]) :
              SegmentDropped(integrated_days[d][k]) =>
                  integrated_days[d][k].name \in Get(plan).warnings

\* ---------------------------------------------------------------- C20
\* The clock of the day of a finished day list reached 24 h: an item was
\* scheduled at 24 h or later, or a stop scheduled before 24 h ends, by its
\* duration alone, at 24 h or later.
ClockReachedDayEnd(sched) ==
    \E k \in 1..Len(sched) :
        /\ IsSome(sched[k].at)
        /\ \/ Get(sched[k].at) >= DAY
           \/ /\ ~sched[k].is_meal
              /\ Get(sched[k].at)
                     + ParseDuration(sched[k].duration, DefaultDurationText) >= DAY

\* C20: whenever the clock of a day reaches 24 h at any point of the day's
\* simulation, the end of the last stop's duration included, the record of
\* the day carries a warning and the warnings of the plan hold it; every
\* activity with a 'Day+' timestamp has its warning in the day's record.
C20_OverflowAlwaysWarned ==
    (pc = "done" /\ IsSome(plan)) =>
        \A d \in 1..Len(integrated_days) :
            LET record == Get(plan).itinerary[d]
            IN  /\ ClockReachedDayEnd(integrated_days[d]) =>
                      /\ Len(record.warnings) > 0
                      /\ \A k \in 1..Len(record.warnings) :
                            record.warnings[k] \in Get(plan).warnings
                /\ \A k \in 1..Len(record.activities) :
                      StartsWithDayPlus(record.activities[k].time) =>
                          \E w \in 1..Len(record.warnings) :
                              record.warnings[w] = record.activities[k].name

\* ---------------------------------------------------------------- C21
\* C21: for every non-empty day of the returned plan, start_time is the time
\* of the first activity, and end_time is the formatted value of the last
\* activity's scheduled clock time (hours and minutes) plus that activity's
\* duration; end_time is never earlier than the last activity's time.
C21_DayStartAndEnd ==
    (pc = "done" /\ IsSome(plan)) =>
        \A d \in 1..Len(Get(plan).itinerary) :
            LET record == Get(plan).itinerary[d]
                last == record.activities[Len(record.activities)]
            IN  Len(record.activities) > 0 =>
                    /\ record.start_time = Some(record.activities[1].time)
                    /\ record.end_time =
                           Some(FormatTime(TimeValue(last.time)
                                           + ParseText(last.duration)))
                    /\ TimeValue(Get(record.end_time)) >= TimeValue(last.time)

\* ---------------------------------------------------------------- C22
\* The attraction activities of a day record, in order.
StopsOfRecord(record) ==
    SelectSeq(record.activities, LAMBDA a : a.type = "attraction")

\* C22: in every returned plan, with or without dining options and an
\* accommodation, the first stop of each day is scheduled at 09:00 and each
\* later stop at a clock value that is at least the time of the stop before
\* it plus that stop's parsed duration plus the 0.25 h buffer (travel and
\* meal time come on top).
C22_StopsFollowTheClock ==
    (pc = "done" /\ IsSome(plan)) =>
        \A d \in 1..Len(Get(plan).itinerary) :
            LET stops == StopsOfRecord(Get(plan).itinerary[d])
            IN  /\ Len(stops) > 0 => stops[1].time = NineOClock
                /\ \A k \in 2..Len(stops) :
                      TimeValue(stops[k].time) >=
                          TimeValue(stops[k - 1].time)
                              + ParseText(stops[k - 1].duration) + H \div 4

\* ---------------------------------------------------------------- C23
\* The stops (not the meals) of a day list, in order.
StopsIn(sched) == SelectSeq(sched, LAMBDA it : ~it.is_meal)

\* The day list of day d holds every stop of the day's ordered list exactly
\* once, in list order, and every stop reached at or after 24 h is stamped
\* 'Day+N' with the N of its clock value.
DayComplete(d) ==
    LET stops == StopsIn(integrated_days[d])
    IN  /\ Len(stops) = Len(daily_groups[d])
        /\ \A k \in 1..Len(stops) :
              /\ stops[k].name = daily_groups[d][k].name
              /\ IsSome(stops[k].at)
              /\ IsSome(stops[k].scheduled_time)
              /\ TimeValue(Get(stops[k].scheduled_time)) = Get(stops[k].at)
              /\ Get(stops[k].at) >= DAY =>
                    /\ StartsWithDayPlus(Get(stops[k].scheduled_time))
                    /\ Get(stops[k].scheduled_time).n = Get(stops[k].at) \div DAY

\* The number of steps the simulation has left: the start and the stops of
\* the days still to simulate, and step 7.
RECURSIVE StepsOfDays(_)
StepsOfDays(d) ==
    IF d > Len(daily_groups) THEN 0
    ELSE Len(daily_groups[d]) + 1 + StepsOfDays(d + 1)

StepsLeft ==
    CASE pc = "day" -> 1 + StepsOfDays(day_num)
      [] pc = "stop" ->
            1 + (Len(daily_groups[day_num]) - idx + 1) + StepsOfDays(day_num + 1)
      [] pc = "generate" -> 1
      [] OTHER -> 0

\* C23: reaching or passing 24 h never halts or truncates the simulation
\* of a day.  The simulation terminates: until every day list is handed to
\* step 7 the next step of the simulation (the start of a day, the next
\* stop) is always possible, and every step leaves one step less to do.
\* When it is over every stop of the day's list has been scheduled exactly
\* once, in list order, those reached at or after 24 h with 'Day+N'
\* timestamps.
C23_DayRunsToCompletion ==
    /\ [](pc \in { "day", "stop", "generate", "done" })
    /\ [](pc = "day" => ENABLED BeginDay)
    /\ [](pc = "stop" => ENABLED ScheduleStop)
    /\ [][StepsLeft' = StepsLeft - 1]_vars
    /\ [](pc \in { "generate", "done" } =>
            \A d \in 1..Len(daily_groups) : DayComplete(d))

\* A day is over in which two stops were reached after 24 h.
C23_Witness ==
    /\ pc = "done"
    /\ \E k, m \in 1..Len(integrated_days[1]) :
          /\ k < m
          /\ ~integrated_days[1][k].is_meal /\ ~integrated_days[1][m].is_meal
          /\ Get(integrated_days[1][k].at) >= DAY
          /\ StartsWithDayPlus(Get(integrated_days[1][m].scheduled_time))

\* ---------------------------------------------------------------- C24
\* The day list the simulation appended to last.
LastSchedule ==
    IF pc = "stop" THEN day_schedule
    ELSE IF Len(integrated_days) > 0 THEN integrated_days[Len(integrated_days)]
    ELSE << >>

\* The last step scheduled a stop and inserted a meal behind it.
MealInserted ==
    /\ searched # << >>
    /\ Len(LastSchedule) > 1
    /\ LastSchedule[Len(LastSchedule)].is_meal

C25_NoMealWithoutCandidate ==
    /\ [][pc = "stop" =>
            LET sched == LastSchedule'
                n == IF sched[Len(sched)].is_meal THEN Len(sched) - 1 ELSE Len(sched)
                upto == SubSeq(sched, 1, n)
                t == Get(sched[n].decided_at)
                is_last == idx = Len(daily_groups[day_num])
                eligible == \/ IsLunchTime(t % DAY, upto)
                            \/ IsDinnerTime(t % DAY, is_last, upto)
                unused == SelectSeq(restaurants,
                              LAMBDA r : r.name \notin used_restaurants
                                            /\ IsSome(r.coordinates))
                all_failed ==
                    /\ searched' # << >>
                    /\ \A i \in 1..Len(Get(searched').candidates) :
                          Get(searched').answers[i].status # "OK"
            IN  eligible /\ (Len(unused) = 0 \/ all_failed) =>
                    /\ n = Len(sched)
                    /\ used_restaurants' = used_restaurants
                    /\ ~is_last =>
                          /\ pc' = "stop"
                          /\ idx' = idx + 1
                          /\ current_time' = t
       ]_vars
    /\ [](pc = "done" =>
            \A d \in 1..Len(daily_groups) :
                Len(SelectSeq(integrated_days[d], LAMBDA it : ~it.is_meal))
                    = Len(daily_groups[d]))

\* A stop has been scheduled that was meal-eligible, every candidate's
\* lookup failed, and the day goes on with the next stop.
C25_Witness ==
    /\ pc = "stop"
    /\ searched # << >>
    /\ Len(Get(searched).candidates) > 0
    /\ \A i \in 1..Len(Get(searched).candidates) :
          Get(searched).answers[i].status # "OK"
    /\ ~day_schedule[Len(day_schedule)].is_meal

\* ---------------------------------------------------------------- C26
\* The travel from the meal at index i of a day list to the stop behind it
\* can be counted: both have coordinates, the lookup for the pair answered
\* with status OK, the distance is at most 100 km and the duration at most
\* 2 h.
FromMealUsable(sched, i) ==
    /\ IsSome(sched[i].coordinates)
    /\ IsSome(sched[i + 1].coordinates)
    /\ IsSome(sched[i].leg)
    /\ Get(sched[i].leg).status = "OK"
    /\ Get(sched[i].leg).distance_km <= 100
    /\ Get(sched[i].leg).duration_h <= 2 * H

\* C26: from the time a meal is scheduled at, the clock is advanced by
\* exactly the hour of the meal and the quarter-hour buffer, plus the
\* travel time from the dining option to the following stop only when that
\* stop exists, both have coordinates, the lookup succeeded, the distance
\* is at most 100 km and the duration at most 2 h; and a segment from the
\* dining option of more than 100 km is never recorded on the meal.
C26_ClockAfterMeal ==
    \A d \in 1..Len(AllSchedules) : \A i \in 1..Len(AllSchedules[d]) :
        LET sched == AllSchedules[d]
        IN  sched[i].is_meal =>
              /\ i < Len(sched) =>
                    Get(sched[i + 1].at) =
                        Get(sched[i].at) + 1 * H + H \div 4
                            + (IF FromMealUsable(sched, i)
                               THEN Get(sched[i].leg).duration_h ELSE 0)
              /\ IsSome(sched[i].travel_to_next) =>
                    Get(sched[i].travel_to_next).distance_km <= 100
              /\ (IsSome(sched[i].leg) /\ Get(sched[i].leg).status = "OK"
                    /\ Get(sched[i].leg).distance_km > 100) =>
                    sched[i].travel_to_next = None

\* A day with a meal whose travel to the following stop advanced the clock
\* and a meal whose lookup answered a route of more than 100 km, which is
\* not recorded and did not advance the clock.
C26_Witness ==
    \E d \in 1..Len(AllSchedules) : \E i, j \in 1..(Len(AllSchedules[d]) - 1) :
        LET sched == AllSchedules[d]
        IN  /\ sched[i].is_meal /\ sched[j].is_meal
            /\ FromMealUsable(sched, i)
            /\ Get(sched[i + 1].at) > Get(sched[i].at) + 1 * H + H \div 4
            /\ IsSome(sched[j].leg)
            /\ Get(sched[j].leg).status = "OK"
            /\ Get(sched[j].leg).distance_km > 100
            /\ sched[j].travel_to_next = None
            /\ Get(sched[j + 1].at) = Get(sched[j].at) + 1 * H + H \div 4

\* ---------------------------------------------------------------- C27
\* The buckets d..Len(groups) of groups, one behind the other.
RECURSIVE BucketsJoined(_, _)
BucketsJoined(groups, d) ==
    IF d > Len(groups) THEN << >>
    ELSE groups[d] \o BucketsJoined(groups, d + 1)

\* C27: the split partitions the filtered list into `days` consecutive
\* slices in input order: the buckets joined in day order are the list;
\* each day before the last holds max(1, floor(n / days)) POIs while POIs
\* remain, the last day takes the remainder, and when n >= days no day is
\* empty.
C27_SplitPartitions ==
    pc = "optimize" =>
        LET n == Len(attractions)
            per_day == IF n \div days >= 1 THEN n \div days ELSE 1
            remain(d) == IF n > (d - 1) * per_day THEN n - (d - 1) * per_day ELSE 0
        IN  /\ Len(daily_groups) = days
            /\ BucketsJoined(daily_groups, 1) = attractions
            /\ \A d \in 1..(days - 1) :
                  Len(daily_groups[d]) =
                      IF remain(d) >= per_day THEN per_day ELSE remain(d)
            /\ Len(daily_groups[days]) = remain(days)
            /\ n >= days => \A d \in 1..days : Len(daily_groups[d]) > 0

\* Three POIs have been split over two days: one for the first day, the
\* remaining two for the last.
C27_Witness ==
    /\ pc = "optimize"
    /\ days = 2
    /\ Len(attractions) = 3
    /\ Len(daily_groups[1]) = 1
    /\ Len(daily_groups[2]) = 2

\* ---------------------------------------------------------------- C28
\* The travel time recorded on the meal at index i of a day list that was
\* applied to the clock: to the dining option, and from it to the next stop
\* when that segment is at most 2 h.
PathViaMeal(sched, i) ==
    RestaurantTravel(sched[i])
        + (IF IsSome(sched[i].travel_to_next)
              /\ Get(sched[i].travel_to_next).duration_h <= 2 * H
           THEN Get(sched[i].travel_to_next).duration_h ELSE 0)

\* C28: when a meal is inserted between two stops, the clock advance from
\* the end of the stop before it to the start of the stop behind it is the
\* travel along the path taken (stop to dining option, dining option to
\* next stop), the hour of the meal and the two quarter-hour buffers; the
\* direct travel from stop to stop is not added as well.
C28_OnlyThePathTaken ==
    \A d \in 1..Len(AllSchedules) : \A i \in 2..(Len(AllSchedules[d]) - 1) :
        LET sched == AllSchedules[d]
        IN  sched[i].is_meal =>
                Get(sched[i + 1].at)
                    - (Get(sched[i - 1].at)
                        + ParseDuration(sched[i - 1].duration, DefaultDurationText))
                  = H \div 4 + PathViaMeal(sched, i) + 1 * H + H \div 4

\* ---------------------------------------------------------------- C29
\* The travel time by which the clock was advanced for entry i of a
\* finished day list: for a stop what the clock gained beyond its duration
\* and the buffer, for a meal what it gained to reach the dining option and,
\* when a stop follows, beyond the hour of the meal and the buffer.
TravelAppliedAt(sched, i) ==
    IF sched[i].is_meal
    THEN (Get(sched[i].at) - Get(sched[i - 1].decided_at))
            + (IF i < Len(sched)
               THEN Get(sched[i + 1].at) - Get(sched[i].at) - 1 * H - H \div 4
               ELSE 0)
    ELSE Get(sched[i].decided_at) - Get(sched[i].at)
            - ParseDuration(sched[i].duration, DefaultDurationText) - H \div 4

TravelApplied(sched) ==
    SumSeq([i \in 1..Len(sched) |-> TravelAppliedAt(sched, i)])

\* C29: for every day of the returned plan total_travel_time_hours is the
\* travel time by which the day's clock was advanced, rounded to a tenth
\* of an hour, so that a segment that was not applied to the clock does not
\* count; and the plan's total_travel_hours is the sum of the day totals.
C29_ReportedTravelIsAppliedTravel ==
    (pc = "done" /\ IsSome(plan)) =>
        /\ \A d \in 1..Len(integrated_days) :
              Get(plan).itinerary[d].total_travel_time_hours =
                  Some(RoundTenth(TravelApplied(integrated_days[d])))
        /\ Get(plan).summary.total_travel_hours =
              Some(SumSeq([d \in 1..Len(Get(plan).itinerary) |->
                      Get(Get(plan).itinerary[d].total_travel_time_hours)]))

\* ---------------------------------------------------------------- C30
\* The positions at which a node of the graph is due, in the order of the
\* edges.
NodeOrder ==
    << "research_node", "accommodation_node", "dining_node", "itinerary_node" >>

\* The itinerary node is running create_schedule.
InItineraryNode ==
    pc \notin { NodeOrder[k] : k \in 1..Len(NodeOrder) } \cup { "END" }

\* One step of plan_trip keeps the order of the nodes: a node is due only
\* behind its predecessor, the itinerary node runs behind the dining node,
\* and the end is reached only from the itinerary node.
KeepsNodeOrder ==
    /\ \A k \in 1..(Len(NodeOrder) - 1) :
          /\ pc = NodeOrder[k] => pc' = NodeOrder[k + 1]
          /\ pc' = NodeOrder[k + 1] => pc = NodeOrder[k]
    /\ pc' # NodeOrder[1]
    /\ pc = NodeOrder[Len(NodeOrder)] => InItineraryNode'
    /\ (InItineraryNode' /\ ~InItineraryNode) => pc = NodeOrder[Len(NodeOrder)]
    /\ InItineraryNode => (InItineraryNode' \/ pc' = "END")
    /\ pc' = "END" => InItineraryNode
    /\ pc # "END"

\* One step of plan_trip keeps the error messages it found and appends at
\* most one; the step that appends one leaves the empty result of its node.
KeepsErrors ==
    LET before == Get(state).errors
        after == Get(state').errors
    IN  /\ Len(after) \in { Len(before), Len(before) + 1 }
        /\ SubSeq(after, 1, Len(before)) = before
        /\ pc = "raised" => Len(after) = Len(before) + 1
        /\ Len(after) = Len(before) + 1 =>
              /\ pc = "research_node" => Get(state').attractions = << >>
              /\ pc = "accommodation_node" =>
                    /\ Get(state').accommodations = << >>
                    /\ Get(state').best_accommodation_location = None
              /\ pc = "dining_node" => Get(state').restaurants = << >>
              /\ InItineraryNode =>
                    /\ pc = "raised"
                    /\ Get(state').itinerary = None
                    /\ ~Get(state').complete

\* C30: plan_trip runs the four workflow steps in the fixed order research,
\* accommodation, dining, itinerary and then terminates; a step that raises
\* yields its empty result with the error message appended to the errors
\* list, the later steps still run, no earlier error message is lost, and
\* `complete` is true only when the itinerary step succeeded.
C30_FourStepsInOrder ==
    /\ pc = "research_node"
    /\ [][KeepsNodeOrder]_vars
    /\ <>(pc = "END")
    /\ [][KeepsErrors]_vars
    /\ [](Get(state).complete =>
            /\ pc = "END"
            /\ ~raised
            /\ IsSome(plan)
            /\ Get(state).itinerary = plan)

\* plan_trip is over: the research step found an attraction, the
\* accommodation step, the dining step and the itinerary step raised, and
\* the three messages are in the errors list in that order.
C30_Witness ==
    /\ pc = "END"
    /\ Len(Get(state).attractions) > 0
    /\ Len(Get(state).errors) = 3
    /\ Get(state).errors[1] = "timeout"
    /\ Get(state).errors[2] = "no api key"
    /\ Get(state).errors[3] = DivisionByZero
    /\ ~Get(state).complete
====
